---- MODULE Spec2Model ----
(***************************************************************************)
(* Model of the md_spreadsheet_editor package (python-modules): the        *)
(* boundary scanner, the workbook patch builder, the editor session and    *)
(* the column-metadata remapping of the table service.                     *)
(*                                                                         *)
(* A text is the list md_text.split("\n"): a non-empty sequence of lines,  *)
(* each line a sequence of one-character strings (BQ stands for the        *)
(* backquote character).  Line numbers are 0-based as in the source;       *)
(* Line(lines, i) reads lines[i].                                          *)
(***************************************************************************)
EXTENDS Integers, Sequences, FiniteSets, TLC

VARIABLES md_text, config, schema, workbook, heap, ret, pre, nops

vars == <<md_text, config, schema, workbook, heap, ret, pre, nops>>

(***************************************************************************)
(* Bounds                                                                  *)
(***************************************************************************)
MaxLines == 4

(***************************************************************************)
(* Lines and characters                                                    *)
(***************************************************************************)
RootT == <<"#", " ", "T">>
DocA == <<"#", " ", "A">>
IndentDocB == <<" ", "#", " ", "B">>
SheetS == <<"#", "#", " ", "S">>
BQ == "bq"

Fence == <<BQ, BQ, BQ>>
Plain == <<"x">>
EmptyLine == <<>>

LineSet == {RootT, DocA, IndentDocB, SheetS, Fence, Plain, EmptyLine}

Texts == UNION {[1..n -> LineSet] : n \in 1..MaxLines}

Line(lines, i) == lines[i + 1]

RECURSIVE lstrip(_)
lstrip(s) == IF s = <<>> THEN s
             ELSE IF Head(s) = " " THEN lstrip(Tail(s)) ELSE s

RECURSIVE rstrip(_)
rstrip(s) == IF s = <<>> THEN s
             ELSE IF s[Len(s)] = " " THEN rstrip(SubSeq(s, 1, Len(s) - 1)) ELSE s

strip(s) == rstrip(lstrip(s))

startswith(s, p) == Len(s) >= Len(p) /\ SubSeq(s, 1, Len(p)) = p

RECURSIVE get_level(_)
get_level(s) == IF s = <<>> THEN 0
                ELSE IF Head(s) = "#" THEN 1 + get_level(Tail(s)) ELSE 0

Min(a, b) == IF a < b THEN a ELSE b
Max(a, b) == IF a > b THEN a ELSE b

(***************************************************************************)
(* Configuration: the JSON string held by the session.  kind "none" is an  *)
(* empty/None config (defaults apply), "bad" a string json.loads rejects.  *)
(***************************************************************************)
DefaultRootMarker == RootT
DefaultSheetHeaderLevel == 2

ConfigNone == [kind |-> "none", rootMarker |-> DefaultRootMarker,
               sheetHeaderLevel |-> DefaultSheetHeaderLevel]
ConfigBad == [kind |-> "bad", rootMarker |-> DefaultRootMarker,
              sheetHeaderLevel |-> DefaultSheetHeaderLevel]
ConfigJson(m, l) == [kind |-> "json", rootMarker |-> m, sheetHeaderLevel |-> l]

JsonLoadsOk(c) == c.kind # "bad"

(***************************************************************************)
(* services/workbook.py: get_workbook_range                                *)
(***************************************************************************)
ToggleFence(line, in_code_block) ==
    IF startswith(strip(line), Fence) THEN ~in_code_block ELSE in_code_block

RECURSIVE FindRootAlways(_, _, _, _)
FindRootAlways(lines, root_marker, i, in_code_block) ==
    IF i >= Len(lines) THEN Len(lines)
    ELSE IF strip(Line(lines, i)) = root_marker THEN i
         ELSE FindRootAlways(lines, root_marker, i + 1, in_code_block)

RECURSIVE FindRoot(_, _, _, _)
FindRoot(lines, root_marker, i, in_code_block) ==
    IF i >= Len(lines) THEN Len(lines)
    ELSE LET icb == ToggleFence(Line(lines, i), in_code_block)
         IN IF ~icb /\ strip(Line(lines, i)) = root_marker THEN i
            ELSE FindRoot(lines, root_marker, i + 1, icb)

RECURSIVE FindEnd(_, _, _, _)
FindEnd(lines, sheet_header_level, i, in_code_block) ==
    IF i >= Len(lines) THEN Len(lines)
    ELSE LET line == strip(Line(lines, i))
             icb == ToggleFence(Line(lines, i), in_code_block)
         IN IF ~icb /\ startswith(line, <<"#">>)
                  /\ get_level(line) < sheet_header_level
            THEN i
            ELSE FindEnd(lines, sheet_header_level, i + 1, icb)

get_workbook_range(lines, root_marker, sheet_header_level) ==
    LET start_line == IF root_marker # <<>>
                      THEN FindRoot(lines, root_marker, 0, FALSE)
                      ELSE 0
    IN [start |-> start_line,
        end |-> FindEnd(lines, sheet_header_level, start_line + 1, FALSE)]

(***************************************************************************)
(* Workbook values.  A Workbook is an immutable dataclass; its metadata    *)
(* dict may hold "tab_order", a list of references to entry dicts that     *)
(* live in the heap (Python dicts are shared by reference when a list is   *)
(* copied with list(...)).  present = FALSE is Python's None.              *)
(***************************************************************************)
NoneWorkbook == [present |-> FALSE, sheets |-> <<>>, has_tab_order |-> FALSE,
                 tab_order |-> <<>>, other_meta |-> FALSE]

Workbook(sheets) == [present |-> TRUE, sheets |-> sheets, has_tab_order |-> FALSE,
                     tab_order |-> <<>>, other_meta |-> FALSE]

(***************************************************************************)
(* md_spreadsheet_parser.generate_workbook_markdown (external renderer):   *)
(* the lines of the rendered workbook region, root marker first, then one  *)
(* heading per sheet.                                                      *)
(***************************************************************************)
RECURSIVE RenderSheets(_)
RenderSheets(sheets) ==
    IF sheets = <<>> THEN <<>>
    ELSE <<EmptyLine, SheetS>> \o RenderSheets(Tail(sheets))

generate_workbook_markdown(wb, root_marker) ==
    <<root_marker>> \o RenderSheets(wb.sheets)

(***************************************************************************)
(* services/workbook.py: generate_and_get_range.  Strings are kept as the  *)
(* list of their lines: "" is <<EmptyLine>>, s + "\n" appends an empty     *)
(* line, "\n" * k + s prepends k empty lines.                              *)
(***************************************************************************)
RECURSIVE TrailingEmpty(_)
TrailingEmpty(lines) ==
    IF lines = <<>> THEN 0
    ELSE IF lines[Len(lines)] = EmptyLine
         THEN 1 + TrailingEmpty(SubSeq(lines, 1, Len(lines) - 1))
         ELSE 0

(* the count that stops at once: no trailing "\n" is seen *)
trailing_newlines_unseen(lines) == 0

(* number of "\n" characters at the end of the text *)
trailing_newlines(lines) == Min(TrailingEmpty(lines), Len(lines) - 1)

Blank(k) == [i \in 1..k |-> EmptyLine]

EndRangeNoStepBack(lines, end) ==
    IF end >= Len(lines)
    THEN [end_line |-> Len(lines) - 1, end_col |-> Len(Line(lines, Len(lines) - 1))]
    ELSE [end_line |-> end, end_col |-> Len(Line(lines, end))]

EndRange(lines, end) ==
    IF end >= Len(lines)
    THEN [end_line |-> Len(lines) - 1, end_col |-> Len(Line(lines, Len(lines) - 1))]
    ELSE IF end > 0
         THEN [end_line |-> end - 1, end_col |-> Len(Line(lines, end - 1))]
         ELSE [end_line |-> end, end_col |-> 0]

generate_and_get_range(wb, sch, lines, cfg) ==
    LET new_md == IF ~wb.present \/ wb.sheets = <<>> THEN <<EmptyLine>>
                  ELSE IF ~sch THEN <<EmptyLine>>
                  ELSE generate_workbook_markdown(wb, cfg.rootMarker)
        r == get_workbook_range(lines, cfg.rootMarker, cfg.sheetHeaderLevel)
        e == EndRange(lines, r.end)
        content == new_md \o <<EmptyLine>>
        needed == Max(0, 2 - trailing_newlines(lines))
    IN [startLine |-> r.start,
        endLine |-> e.end_line,
        endCol |-> e.end_col,
        content |-> IF r.start >= Len(lines) /\ lines # <<EmptyLine>>
                    THEN Blank(needed) \o content
                    ELSE content]

(***************************************************************************)
(* services/document.py, utils_structure.py: the level-1 heading scan      *)
(* shared by get_document_section_range, add_document, the section moves   *)
(* and extract_structure.                                                  *)
(***************************************************************************)
(* in_code_block after the loop body has toggled it on line i *)
RECURSIVE InCodeBlockAt(_, _)
InCodeBlockAt(lines, i) ==
    IF i < 0 THEN FALSE
    ELSE ToggleFence(Line(lines, i), InCodeBlockAt(lines, i - 1))

(* line.startswith("# ") and not line.startswith("##") *)
IsH1(line) == startswith(line, <<"#", " ">>) /\ ~startswith(line, <<"#", "#">>)

RECURSIVE SortedSeq(_)
SortedSeq(S) ==
    IF S = {} THEN <<>>
    ELSE LET m == CHOOSE x \in S : \A y \in S : x <= y
         IN <<m>> \o SortedSeq(S \ {m})

HeadingLinesNoFence(lines) ==
    SortedSeq({i \in 0..(Len(lines) - 1) : IsH1(Line(lines, i))})

HeadingLines(lines) ==
    SortedSeq({i \in 0..(Len(lines) - 1) :
                  ~InCodeBlockAt(lines, i) /\ IsH1(Line(lines, i))})

ScanSections(lines, root_marker) ==
    LET H == HeadingLines(lines)
    IN [k \in 1..Len(H) |->
          [start |-> H[k],
           end |-> IF k < Len(H) THEN H[k + 1] - 1 ELSE Len(lines) - 1,
           type |-> IF strip(Line(lines, H[k])) = root_marker
                    THEN "workbook" ELSE "document"]]

IsDocumentSection(sec) == sec.type = "document"

DocSections(lines, root_marker) ==
    SelectSeq(ScanSections(lines, root_marker), IsDocumentSection)

get_document_section_range(lines, cfg, section_index) ==
    LET doc_sections == DocSections(lines, cfg.rootMarker)
    IN IF section_index < 0 \/ section_index >= Len(doc_sections)
       THEN [error |-> TRUE, start_line |-> -1, end_line |-> -1, end_col |-> -1]
       ELSE LET target == doc_sections[section_index + 1]
            IN [error |-> FALSE,
                start_line |-> target.start,
                end_line |-> target.end,
                end_col |-> IF target.end < Len(lines)
                            THEN Len(Line(lines, target.end)) ELSE 0]

(* utils_structure.py: extract_structure.  A document whose title is empty
   is never appended (current_title is falsy). *)
TitleOf(line) == strip(SubSeq(line, 3, Len(line)))

RECURSIVE StructureOf(_, _)
StructureOf(lines, secs) ==
    IF secs = <<>> THEN <<>>
    ELSE LET sec == Head(secs)
             title == TitleOf(Line(lines, sec.start))
             entry == IF sec.type = "workbook"
                      THEN <<[type |-> "workbook", title |-> <<>>, content |-> <<>>]>>
                      ELSE IF title = <<>> THEN <<>>
                      ELSE <<[type |-> "document", title |-> title,
                              content |-> SubSeq(lines, sec.start + 2, sec.end + 1)]>>
         IN entry \o StructureOf(lines, Tail(secs))

extract_structure(lines, root_marker) ==
    StructureOf(lines, ScanSections(lines, root_marker))

(***************************************************************************)
(* Tables.  A table has headers, rows and a metadata dict.  A column-      *)
(* indexed dict is kept as its items in insertion order (integer keys are  *)
(* the keys k for which int(k) succeeds) plus the set of its non-integer   *)
(* keys; has = FALSE means the key holding the dict is absent.             *)
(***************************************************************************)
Removed == -1

(* Python's None where an integer argument is optional *)
None == -100

NoDict == [has |-> FALSE, items |-> <<>>, named |-> {}]

Dict(items, named) == [has |-> TRUE, items |-> items, named |-> named]

NoVisual == [has |-> FALSE, column_widths |-> NoDict, validation |-> NoDict,
             columns |-> NoDict, filters |-> NoDict]

EmptyMetadata == [validation |-> NoDict, visual |-> NoVisual,
                  columnWidths |-> NoDict, other |-> FALSE]

(* bool(metadata): a dict with at least one key *)
Truthy(metadata) ==
    metadata.validation.has \/ metadata.visual.has
        \/ metadata.columnWidths.has \/ metadata.other

Keys(items) == {items[j].k : j \in 1..Len(items)}

Lookup(items, k) == (CHOOSE j \in 1..Len(items) : items[j].k = k)

(* d[k] = v on an insertion-ordered dict *)
dict_set(items, k, v) ==
    IF k \in Keys(items)
    THEN [items EXCEPT ![Lookup(items, k)] = [k |-> k, v |-> v]]
    ELSE Append(items, [k |-> k, v |-> v])

(* services/table.py: shift_dict inside _shift_column_metadata *)
RECURSIVE shift_items(_, _, _)
shift_items(items, shift_map, new_dict) ==
    IF items = <<>> THEN new_dict
    ELSE LET idx == Head(items).k
             v == Head(items).v
             nd == IF idx \in DOMAIN shift_map
                   THEN IF shift_map[idx] # Removed
                        THEN dict_set(new_dict, shift_map[idx], v)
                        ELSE new_dict
                   ELSE dict_set(new_dict, idx, v)
         IN shift_items(Tail(items), shift_map, nd)

(* a shift that keeps the column keys only *)
shift_dict_column_keys_only(d, shift_map) ==
    IF ~d.has THEN d
    ELSE [d EXCEPT !.items = shift_items(d.items, shift_map, <<>>), !.named = {}]

shift_dict(d, shift_map) ==
    IF ~d.has THEN d
    ELSE [d EXCEPT !.items = shift_items(d.items, shift_map, <<>>)]

(* services/table.py: _shift_column_metadata *)
shift_column_metadata(metadata, shift_map) ==
    IF ~Truthy(metadata) THEN EmptyMetadata
    ELSE [metadata EXCEPT
            !.validation = shift_dict(@, shift_map),
            !.visual = IF ~@.has THEN @
                       ELSE [@ EXCEPT
                               !.validation = shift_dict(@, shift_map),
                               !.columns = shift_dict(@, shift_map),
                               !.filters = shift_dict(@, shift_map)]]

InsertAt(seq, pos, x) ==
    SubSeq(seq, 1, pos) \o <<x>> \o SubSeq(seq, pos + 1, Len(seq))

RemoveAt(seq, pos) ==
    SubSeq(seq, 1, pos) \o SubSeq(seq, pos + 2, Len(seq))

(* while len(new_row) < len(headers): new_row.append("") *)
PadRow(row, n) ==
    IF Len(row) >= n THEN row
    ELSE row \o [j \in 1..(n - Len(row)) |-> ""]

(* services/table.py: insert_column, the shift map *)
insert_shift_map(col_count, insert_pos) ==
    [i \in 0..(col_count - 1) |-> IF i >= insert_pos THEN i + 1 ELSE i]

(* an insert that names the new header and leaves the rows as they are *)
insert_column_table_headers_only(t, col_idx, column_name) ==
    [t EXCEPT !.headers = InsertAt(t.headers, Max(0, Min(col_idx, Len(t.headers))),
                                   column_name)]

(* services/table.py: insert_column, sheet_update_logic on the target table *)
insert_column_table(t, col_idx, column_name) ==
    LET n == Len(t.headers)
        insert_pos == Max(0, Min(col_idx, n))
        new_rows == [r \in 1..Len(t.rows) |->
                        InsertAt(PadRow(t.rows[r], n), insert_pos, "")]
    IN [headers |-> InsertAt(t.headers, insert_pos, column_name),
        rows |-> new_rows,
        metadata |-> IF Truthy(t.metadata)
                     THEN shift_column_metadata(t.metadata,
                                                insert_shift_map(n, insert_pos))
                     ELSE t.metadata]

(* sorted(col_indices, reverse=True) *)
RECURSIVE SortDesc(_)
SortDesc(seq) ==
    IF seq = <<>> THEN <<>>
    ELSE LET j == CHOOSE a \in 1..Len(seq) : \A b \in 1..Len(seq) : seq[a] >= seq[b]
         IN <<seq[j]>> \o SortDesc(SubSeq(seq, 1, j - 1) \o SubSeq(seq, j + 1, Len(seq)))

(* for idx in sorted_indices: if 0 <= idx < len(lst): del lst[idx] *)
RECURSIVE DeleteEach(_, _)
DeleteEach(lst, sorted_indices) ==
    IF sorted_indices = <<>> THEN lst
    ELSE LET idx == Head(sorted_indices)
         IN DeleteEach(IF 0 <= idx /\ idx < Len(lst) THEN RemoveAt(lst, idx) ELSE lst,
                       Tail(sorted_indices))

Range(seq) == {seq[j] : j \in 1..Len(seq)}

(* a map that drops the deleted columns and renumbers nothing *)
delete_shift_map_gaps(col_count, deleted_set) ==
    [i \in 0..(col_count - 1) |-> IF i \in deleted_set THEN Removed ELSE i]

(* services/table.py: delete_columns, the shift map *)
delete_shift_map(col_count, deleted_set) ==
    [i \in 0..(col_count - 1) |->
        IF i \in deleted_set THEN Removed
        ELSE Cardinality({j \in 0..(i - 1) : j \notin deleted_set})]

(* services/table.py: delete_columns, sheet_update_logic on the target table *)
delete_columns_table(t, col_indices) ==
    LET n == Len(t.headers)
        sorted_indices == SortDesc(col_indices)
    IN [headers |-> DeleteEach(t.headers, sorted_indices),
        rows |-> [r \in 1..Len(t.rows) |->
                     DeleteEach(PadRow(t.rows[r], n), sorted_indices)],
        metadata |-> IF Truthy(t.metadata)
                     THEN shift_column_metadata(t.metadata,
                              delete_shift_map(n, Range(sorted_indices)))
                     ELSE t.metadata]

(* items[i] for the i of a set, in ascending order of i *)
RECURSIVE Pick(_, _)
Pick(items, I) ==
    IF I = {} THEN <<>>
    ELSE LET i == CHOOSE a \in I : \A b \in I : a <= b
         IN <<items[i + 1]>> \o Pick(items, I \ {i})

(* the selection dropped at target_index of the staying items, the moved
   items before the target not discounted *)
reorder_list_unadjusted(items, col_indices, target_index) ==
    LET moving == {idx \in Range(col_indices) : 0 <= idx /\ idx < Len(items)}
        staying_items == Pick(items, (0..(Len(items) - 1)) \ moving)
        cut == Max(0, Min(target_index, Len(staying_items)))
    IN IF moving = {} THEN items
       ELSE SubSeq(staying_items, 1, cut) \o Pick(items, moving)
               \o SubSeq(staying_items, cut + 1, Len(staying_items))

(* services/table.py: move_columns, reorder_list *)

reorder_list(items, col_indices, target_index) ==
    LET moving == {idx \in Range(col_indices) : 0 <= idx /\ idx < Len(items)}
        staying_items == Pick(items, (0..(Len(items) - 1)) \ moving)
        insert_idx_in_staying ==
            Cardinality({i \in 0..(target_index - 1) : i \notin moving})
        moving_items == Pick(items, moving)
        cut == Min(insert_idx_in_staying, Len(staying_items))
    IN IF moving = {} THEN items
       ELSE SubSeq(staying_items, 1, cut) \o moving_items
               \o SubSeq(staying_items, cut + 1, Len(staying_items))

(* services/table.py: move_columns, the shift map {old_idx: new_pos} *)
move_shift_map(col_count, col_indices, target_index) ==
    LET new_indices == reorder_list([j \in 1..col_count |-> j - 1],
                                    col_indices, target_index)
    IN [old_idx \in 0..(col_count - 1) |->
           (CHOOSE new_pos \in 1..col_count : new_indices[new_pos] = old_idx) - 1]

(* move_columns that reorders the headers and leaves the cells in place *)
move_columns_table_headers_only(t, col_indices, target_index) ==
    [t EXCEPT !.headers = reorder_list(t.headers, col_indices, target_index)]

(* services/table.py: move_columns, sheet_update_logic on the target table *)
move_columns_table(t, col_indices, target_index) ==
    LET n == Len(t.headers)
    IN [headers |-> reorder_list(t.headers, col_indices, target_index),
        rows |-> [r \in 1..Len(t.rows) |->
                     reorder_list(PadRow(t.rows[r], n), col_indices, target_index)],
        metadata |-> IF Truthy(t.metadata)
                     THEN shift_column_metadata(t.metadata,
                              move_shift_map(n, col_indices, target_index))
                     ELSE t.metadata]

(* move_rows with the block dropped at target_index of the staying rows *)
move_rows_table_unadjusted(t, row_indices, target_index) ==
    [t EXCEPT !.rows = reorder_list_unadjusted(t.rows, row_indices, target_index)]

(* services/table.py: move_rows, sheet_update_logic on the target table; the
   selection, the staying rows, the insertion point and the slice insert are
   those of reorder_list, applied to the rows *)
move_rows_table(t, row_indices, target_index) ==
    [t EXCEPT !.rows = reorder_list(t.rows, row_indices, target_index)]

(* the rows stay as they are *)
delete_rows_table_kept(t, row_indices) == t

(* services/table.py: delete_rows, sheet_update_logic on the target table *)
delete_rows_table(t, row_indices) ==
    [t EXCEPT !.rows = DeleteEach(t.rows, SortDesc(row_indices))]

(* services/table.py: _update_column_metadata(table, col_idx, "width", width) *)
update_column_metadata(t, col_idx, width) ==
    LET columns == t.metadata.visual.columns
        col_meta == IF col_idx \in Keys(columns.items)
                    THEN columns.items[Lookup(columns.items, col_idx)].v
                    ELSE [tag |-> "", width |-> 0]
        new_columns == [has |-> TRUE,
                        items |-> dict_set(columns.items, col_idx,
                                           [col_meta EXCEPT !.width = width]),
                        named |-> columns.named]
    IN [t EXCEPT !.metadata.visual =
            [@ EXCEPT !.has = TRUE, !.columns = new_columns]]

(***************************************************************************)
(* Tab order.  heap is the store of tab_order entry dicts; an address is   *)
(* an index into it.  Deep(wb, h) is the value a holder of wb reads.       *)
(***************************************************************************)
Entry(type, index) == [type |-> type, index |-> index]

Deref(h, addrs) == [j \in 1..Len(addrs) |-> h[addrs[j]]]

Deep(wb, h) == [wb EXCEPT !.tab_order = Deref(h, @)]

(* bool(wb.metadata) *)
MetadataTruthy(wb) == wb.has_tab_order \/ wb.other_meta

(* list.insert(i, x): negative i counts from the end, then clamps *)
ListInsert(seq, i, x) ==
    LET j == IF i < 0 THEN Max(0, i + Len(seq)) ELSE Min(i, Len(seq))
    IN InsertAt(seq, j, x)

NoPre == [workbook |-> NoneWorkbook, view |-> NoneWorkbook, md_text |-> <<EmptyLine>>]

(***************************************************************************)
(* Result of the last call                                                 *)
(***************************************************************************)
NoRet == [op |-> "none", status |-> "none", startLine |-> -1, endLine |-> -1,
          endCol |-> -1, content |-> <<>>, arg |-> -1, sections |-> <<>>,
          sheet_idx |-> None, table_idx |-> None, cols |-> {}, to_idx |-> None,
          file_changed |-> FALSE]

Ret(op, status) == [NoRet EXCEPT !.op = op, !.status = status]

RangeRet(op, r) == [Ret(op, "ok") EXCEPT !.startLine = r.startLine,
                      !.endLine = r.endLine, !.endCol = r.endCol,
                      !.content = r.content]

(***************************************************************************)
(* services/workbook.py: reorder_tab_metadata.  Returns the new workbook   *)
(* and the heap: the loop assigns item["index"] on the dicts of the old    *)
(* list, which the copied list shares.                                     *)
(***************************************************************************)
IndicesOfType(h, addrs, item_type) ==
    {h[addrs[j]].index : j \in {q \in 1..Len(addrs) : h[addrs[q]].type = item_type}}

SetMax(S) == CHOOSE x \in S : \A y \in S : x >= y

(* dummy_list after pop(from_idx) and insert(insert_idx, moved_item) *)
DummyList(max_index, from_idx, to_idx) ==
    LET dummy == [j \in 1..(max_index + 1) |-> j - 1]
        clamped_to_idx == Min(to_idx, max_index)
        popped == RemoveAt(dummy, from_idx)
        insert_idx == Max(0, Min(clamped_to_idx, Len(popped)))
    IN IF from_idx < Len(dummy)
       THEN InsertAt(popped, insert_idx, from_idx)
       ELSE dummy

(* new_index_map = {old: new for new, old in enumerate(dummy_list)} *)
NewIndexMap(dummy_list) ==
    [old \in Range(dummy_list) |->
        (CHOOSE j \in 1..Len(dummy_list) : dummy_list[j] = old) - 1]

(* the for loop over tab_order: item["index"] = new_index_map[old_idx] on the
   dict itself; moved is the last item whose old index is from_idx (0: none) *)
RECURSIVE RemapLoop(_, _, _, _, _, _)
RemapLoop(h, addrs, item_type, new_index_map, from_idx, moved) ==
    IF addrs = <<>> THEN [heap |-> h, moved |-> moved]
    ELSE LET a == Head(addrs)
             old_idx == h[a].index
         IN IF h[a].type = item_type
            THEN RemapLoop(IF old_idx \in DOMAIN new_index_map
                           THEN [h EXCEPT ![a].index = new_index_map[old_idx]]
                           ELSE h,
                           Tail(addrs), item_type, new_index_map, from_idx,
                           IF old_idx = from_idx THEN a ELSE moved)
            ELSE RemapLoop(h, Tail(addrs), item_type, new_index_map, from_idx, moved)

(* tab_order.index(moved): the first position holding an equal dict *)
ListIndex(h, addrs, a) ==
    (CHOOSE j \in 1..Len(addrs) :
        /\ h[addrs[j]] = h[a]
        /\ \A q \in 1..(j - 1) : h[addrs[q]] # h[a]) - 1

Reposition_absolute(h, addrs, moved, target_tab_order_index) ==
    LET curr_pos == ListIndex(h, addrs, moved)
        popped == RemoveAt(addrs, curr_pos)
        safe_target == Max(0, Min(target_tab_order_index, Len(popped)))
    IN InsertAt(popped, safe_target, moved)

Reposition(h, addrs, moved, target_tab_order_index) ==
    LET curr_pos == ListIndex(h, addrs, moved)
        popped == RemoveAt(addrs, curr_pos)
        target == IF curr_pos < target_tab_order_index
                  THEN target_tab_order_index - 1
                  ELSE target_tab_order_index
        safe_target == Max(0, Min(target, Len(popped)))
    IN InsertAt(popped, safe_target, moved)

reorder_tab_metadata(wb, h, item_type, from_idx, to_idx, target_tab_order_index) ==
    IF ~wb.present \/ ~MetadataTruthy(wb) \/ wb.tab_order = <<>>
          \/ IndicesOfType(h, wb.tab_order, item_type) = {}
    THEN [wb |-> wb, heap |-> h]
    ELSE LET max_index == Max(SetMax(IndicesOfType(h, wb.tab_order, item_type)),
                              from_idx)
             new_index_map == NewIndexMap(DummyList(max_index, from_idx, to_idx))
             loop == RemapLoop(h, wb.tab_order, item_type, new_index_map, from_idx, 0)
             moved == loop.moved
             h2 == loop.heap
             order == IF moved # 0 /\ target_tab_order_index # None
                      THEN Reposition(h2, wb.tab_order, moved, target_tab_order_index)
                      ELSE wb.tab_order
         IN [wb |-> [wb EXCEPT !.has_tab_order = TRUE, !.tab_order = order],
             heap |-> h2]

(***************************************************************************)
(* services/workbook.py: update_workbook and apply_sheet_update.  A        *)
(* transform is a record: raised (it threw), wb (the value it returned)    *)
(* and heap (the entry dicts after it ran).                                *)
(***************************************************************************)
Raised(h) == [raised |-> TRUE, wb |-> NoneWorkbook, heap |-> h]

Returned(wb, h) == [raised |-> FALSE, wb |-> wb, heap |-> h]

Snapshot == [workbook |-> workbook, view |-> Deep(workbook, heap), md_text |-> md_text]

update_workbook(op0, tr, arg) ==
    LET op == op0.op IN
    /\ pre' = Snapshot
    /\ nops' = nops + 1
    /\ UNCHANGED <<md_text, config, schema>>
    /\ IF ~workbook.present
       THEN /\ ret' = [Ret(op, "error") EXCEPT !.arg = arg, !.sheet_idx = op0.sheet_idx,
                                       !.table_idx = op0.table_idx, !.cols = op0.cols,
                                       !.to_idx = op0.to_idx]
            /\ UNCHANGED <<workbook, heap>>
       ELSE IF tr.raised
       THEN /\ ret' = [Ret(op, "error") EXCEPT !.arg = arg, !.sheet_idx = op0.sheet_idx,
                                       !.table_idx = op0.table_idx, !.cols = op0.cols,
                                       !.to_idx = op0.to_idx]
            /\ heap' = tr.heap
            /\ UNCHANGED workbook
       ELSE /\ workbook' = tr.wb
            /\ heap' = tr.heap
            /\ ret' = IF JsonLoadsOk(config)
                      THEN [RangeRet(op, generate_and_get_range(tr.wb, schema,
                                                               md_text, config))
                              EXCEPT !.arg = arg, !.sheet_idx = op0.sheet_idx,
                                     !.table_idx = op0.table_idx, !.cols = op0.cols,
                                       !.to_idx = op0.to_idx]
                      ELSE [Ret(op, "error") EXCEPT !.arg = arg, !.sheet_idx = op0.sheet_idx,
                                       !.table_idx = op0.table_idx, !.cols = op0.cols,
                                       !.to_idx = op0.to_idx]

Op(op, sheet_idx, table_idx, cols) ==
    [op |-> op, sheet_idx |-> sheet_idx, table_idx |-> table_idx, cols |-> cols,
     to_idx |-> None]

(* apply_sheet_update: wb_transform around a sheet transform f, itself a
   record raised/sheet *)
SheetRaised == [raised |-> TRUE, sheet |-> [name |-> <<>>, tables |-> <<>>]]

SheetReturned(sheet) == [raised |-> FALSE, sheet |-> sheet]

apply_sheet_update_unchecked(wb, h, sheet_idx, f) ==
    IF sheet_idx < 0 \/ sheet_idx >= Len(wb.sheets)
    THEN Returned(wb, h)
    ELSE IF f.raised THEN Raised(h)
         ELSE Returned([wb EXCEPT !.sheets[sheet_idx + 1] = f.sheet], h)

apply_sheet_update(wb, h, sheet_idx, f) ==
    IF sheet_idx < 0 \/ sheet_idx >= Len(wb.sheets)
    THEN Raised(h)
    ELSE IF f.raised THEN Raised(h)
         ELSE Returned([wb EXCEPT !.sheets[sheet_idx + 1] = f.sheet], h)

(* the table-index prologue shared by every table operation of table.py *)
table_update(wb, sheet_idx, table_idx, new_table) ==
    IF sheet_idx < 0 \/ sheet_idx >= Len(wb.sheets) THEN SheetRaised
    ELSE LET sheet == wb.sheets[sheet_idx + 1]
         IN IF table_idx < 0 \/ table_idx >= Len(sheet.tables)
            THEN SheetRaised
            ELSE SheetReturned([sheet EXCEPT !.tables[table_idx + 1] = new_table])

TargetTable(wb, sheet_idx, table_idx) ==
    wb.sheets[sheet_idx + 1].tables[table_idx + 1]

(* a table operation: sheet_update_logic handed to apply_sheet_update *)
TableOp(op, sheet_idx, table_idx, new_table, arg, cols) ==
    update_workbook(Op(op, sheet_idx, table_idx, cols),
        apply_sheet_update(workbook, heap, sheet_idx,
            table_update(workbook, sheet_idx, table_idx, new_table)),
        arg)

(***************************************************************************)
(* Session operations (api.py over the services).                          *)
(***************************************************************************)
Name(tag, k) == <<tag, k>>

Table(headers, rows, metadata) ==
    [headers |-> headers, rows |-> rows, metadata |-> metadata]

Sheet(name, tables) == [name |-> name, tables |-> tables]

DefaultColumnNames == <<"Column 1", "Column 2", "Column 3">>

(* context.py: initialize_workbook.  parse_workbook (external parser) is
   given by the sample: the workbook that the sample text parses to, its
   tab_order entries being fresh dicts. *)
InitializeWorkbook(sample, cfg) ==
    /\ pre' = Snapshot
    /\ nops' = nops + 1
    /\ md_text' = sample.text
    /\ config' = cfg
    /\ IF ~JsonLoadsOk(cfg)
       THEN /\ ret' = Ret("initialize_workbook", "raise")
            /\ UNCHANGED <<schema, workbook, heap>>
       ELSE /\ schema' = TRUE
            /\ heap' = heap \o sample.tab_order
            /\ workbook' = [present |-> TRUE,
                            sheets |-> sample.sheets,
                            has_tab_order |-> sample.has_tab_order,
                            tab_order |-> [j \in 1..Len(sample.tab_order) |->
                                              Len(heap) + j],
                            other_meta |-> sample.other_meta]
            /\ ret' = Ret("initialize_workbook", "ok")

(* services/sheet.py: add_sheet, default name *)
RECURSIVE FirstFreeSheetName(_, _)
FirstFreeSheetName(existing_names, i) ==
    IF Name("Sheet", i) \in existing_names
    THEN FirstFreeSheetName(existing_names, i + 1)
    ELSE Name("Sheet", i)

(* for item in tab_order: if sheet and index >= new_sheet_index: index += 1 *)
BumpSheets(h, addrs, new_sheet_index) ==
    [a \in DOMAIN h |->
        LET hits == Cardinality({j \in 1..Len(addrs) : addrs[j] = a})
        IN IF hits > 0 /\ h[a].type = "sheet" /\ h[a].index >= new_sheet_index
           THEN [h[a] EXCEPT !.index = @ + hits]
           ELSE h[a]]

IsRedundant(h, addrs, new_sheets) ==
    /\ Len(addrs) = Len(new_sheets)
    /\ \A i \in 1..Len(addrs) :
          h[addrs[i]].type = "sheet" /\ h[addrs[i]].index = i - 1

(* services/sheet.py: add_sheet *)
add_sheet(wb0, h, new_name, after_sheet_index, target_tab_order_index) ==
    LET wb == IF wb0.present THEN wb0 ELSE Workbook(<<>>)
        name == IF new_name = <<>>
                THEN FirstFreeSheetName({wb.sheets[j].name : j \in 1..Len(wb.sheets)}, 1)
                ELSE new_name
        new_table == Table(DefaultColumnNames, <<<<"", "", "">>>>, EmptyMetadata)
        new_sheet == Sheet(name, <<new_table>>)
        positional == after_sheet_index # None /\ 0 <= after_sheet_index
                         /\ after_sheet_index <= Len(wb.sheets)
        new_sheet_index == IF positional THEN after_sheet_index ELSE Len(wb.sheets)
        new_sheets == InsertAt(wb.sheets, new_sheet_index, new_sheet)
        h1 == IF positional THEN BumpSheets(h, wb.tab_order, new_sheet_index) ELSE h
        (* initialise an empty tab_order with all existing sheets *)
        seeded == ~positional /\ wb.tab_order = <<>> /\ new_sheet_index > 0
        h2 == IF seeded
              THEN h1 \o [i \in 1..new_sheet_index |-> Entry("sheet", i - 1)]
              ELSE h1
        order0 == IF seeded
                  THEN [i \in 1..new_sheet_index |-> Len(h1) + i]
                  ELSE wb.tab_order
        h3 == Append(h2, Entry("sheet", new_sheet_index))
        order == IF target_tab_order_index # None
                 THEN ListInsert(order0, target_tab_order_index, Len(h3))
                 ELSE Append(order0, Len(h3))
        redundant == IsRedundant(h3, order, new_sheets)
    IN [wb |-> [wb EXCEPT !.sheets = new_sheets,
                          !.has_tab_order = ~redundant,
                          !.tab_order = IF redundant THEN <<>> ELSE order],
        heap |-> h3, new_sheet_index |-> new_sheet_index]

AddSheet(new_name, after_sheet_index, target_tab_order_index) ==
    LET r == add_sheet(workbook, heap, new_name, after_sheet_index,
                       target_tab_order_index)
    IN /\ pre' = Snapshot
       /\ nops' = nops + 1
       /\ workbook' = r.wb
       /\ heap' = r.heap
       /\ ret' = [IF JsonLoadsOk(config)
                  THEN RangeRet("add_sheet",
                                generate_and_get_range(r.wb, schema, md_text, config))
                  ELSE Ret("add_sheet", "error")
                    EXCEPT !.arg = r.new_sheet_index]
       /\ UNCHANGED <<md_text, config, schema>>

(* services/sheet.py: rename_sheet *)
RenameSheet(sheet_idx, new_name) ==
    update_workbook(Op("rename_sheet", sheet_idx, None, {}),
        apply_sheet_update(workbook, heap, sheet_idx,
            SheetReturned([workbook.sheets[sheet_idx + 1] EXCEPT !.name = new_name])),
        sheet_idx)

(* services/sheet.py: move_sheet, wb_transform *)
move_sheet(wb, h, from_index, to_index, target_tab_order_index) ==
    IF from_index < 0 \/ from_index >= Len(wb.sheets) THEN Raised(h)
    ELSE LET sheet == wb.sheets[from_index + 1]
             popped == RemoveAt(wb.sheets, from_index)
             insert_idx == Max(0, Min(to_index, Len(popped)))
             wb1 == [wb EXCEPT !.sheets = InsertAt(popped, insert_idx, sheet)]
             r == reorder_tab_metadata(wb1, h, "sheet", from_index, insert_idx,
                                       target_tab_order_index)
         IN IF target_tab_order_index # None
            THEN Returned(r.wb, r.heap)
            ELSE Returned(wb1, h)

MoveSheet(from_index, to_index, target_tab_order_index) ==
    update_workbook([Op("move_sheet", from_index, None, {}) EXCEPT !.to_idx = to_index],
        move_sheet(workbook, heap, from_index, to_index, target_tab_order_index),
        target_tab_order_index)

(* services/table.py: insert_column *)
InsertColumn(sheet_idx, table_idx, col_idx) ==
    TableOp("insert_column", sheet_idx, table_idx,
            insert_column_table(TargetTable(workbook, sheet_idx, table_idx),
                                col_idx, "New Column"),
            col_idx, {col_idx})

(* services/table.py: delete_columns *)
DeleteColumns(sheet_idx, table_idx, col_indices) ==
    TableOp("delete_columns", sheet_idx, table_idx,
            delete_columns_table(TargetTable(workbook, sheet_idx, table_idx),
                                 col_indices),
            IF col_indices = <<>> THEN None ELSE col_indices[1],
            Range(col_indices))

(* services/table.py: update_column_width *)
UpdateColumnWidth(sheet_idx, table_idx, col_idx, width) ==
    TableOp("update_column_width", sheet_idx, table_idx,
            update_column_metadata(TargetTable(workbook, sheet_idx, table_idx),
                                   col_idx, width),
            col_idx, {col_idx})

(* services/table.py: move_columns *)
MoveColumns(sheet_idx, table_idx, col_indices, target_index) ==
    TableOp("move_columns", sheet_idx, table_idx,
            move_columns_table(TargetTable(workbook, sheet_idx, table_idx),
                               col_indices, target_index),
            target_index, Range(col_indices))

(* services/table.py: move_cells.  A cell value is a sequence, "" the empty
   one; rows and columns are 0-based as in the source. *)
EmptyCell == <<>>

(* current_rows[r][c] if r < len(current_rows) and c < len(current_rows[r])
   else "" *)
CellAt(rows, r, c) ==
    IF r < Len(rows) /\ c < Len(rows[r + 1]) THEN rows[r + 1][c + 1] ELSE EmptyCell

InRect(r, c, top, left, height, width) ==
    /\ top <= r /\ r < top + height
    /\ left <= c /\ c < left + width

(* the grid after the two while loops that grow it for the destination *)
ExpandGrid(t, needed_rows, needed_cols) ==
    LET num_cols == IF t.headers # <<>> THEN Len(t.headers)
                    ELSE IF t.rows # <<>> THEN Len(t.rows[1]) ELSE 0
        grown == t.rows \o [i \in 1..(needed_rows - Len(t.rows)) |->
                               [j \in 1..num_cols |-> EmptyCell]]
    IN [i \in 1..Len(grown) |->
          grown[i] \o [j \in 1..(needed_cols - Len(grown[i])) |-> EmptyCell]]

ClearSource(rows, src_range) ==
    [i \in 1..Len(rows) |-> [j \in 1..Len(rows[i]) |->
        IF InRect(i - 1, j - 1, src_range.minR, src_range.minC,
                  src_range.maxR - src_range.minR + 1,
                  src_range.maxC - src_range.minC + 1)
        THEN EmptyCell ELSE rows[i][j]]]

WriteDest(rows, src_data, dest_row, dest_col) ==
    [i \in 1..Len(rows) |-> [j \in 1..Len(rows[i]) |->
        IF src_data # <<>>
              /\ InRect(i - 1, j - 1, dest_row, dest_col, Len(src_data), Len(src_data[1]))
        THEN src_data[i - dest_row][j - dest_col] ELSE rows[i][j]]]

(* move_cells with the source cleared after the paste *)
move_cells_table_clear_last(t, src_range, dest_row, dest_col) ==
    IF src_range.minR = dest_row /\ src_range.minC = dest_col THEN t
    ELSE LET height == src_range.maxR - src_range.minR + 1
             width == src_range.maxC - src_range.minC + 1
             src_data == [r \in 1..height |-> [c \in 1..width |->
                             CellAt(t.rows, src_range.minR + r - 1,
                                    src_range.minC + c - 1)]]
             grid == ExpandGrid(t, dest_row + height, dest_col + width)
         IN [t EXCEPT !.rows = ClearSource(WriteDest(grid, src_data, dest_row, dest_col),
                                           src_range)]

move_cells_table(t, src_range, dest_row, dest_col) ==
    IF src_range.minR = dest_row /\ src_range.minC = dest_col THEN t
    ELSE LET height == src_range.maxR - src_range.minR + 1
             width == src_range.maxC - src_range.minC + 1
             src_data == [r \in 1..height |-> [c \in 1..width |->
                             CellAt(t.rows, src_range.minR + r - 1,
                                    src_range.minC + c - 1)]]
             grid == ExpandGrid(t, dest_row + height, dest_col + width)
         IN [t EXCEPT !.rows = WriteDest(ClearSource(grid, src_range), src_data,
                                         dest_row, dest_col)]

MoveCells(sheet_idx, table_idx, src_range, dest_row, dest_col) ==
    TableOp("move_cells", sheet_idx, table_idx,
            move_cells_table(TargetTable(workbook, sheet_idx, table_idx),
                             src_range, dest_row, dest_col),
            [src_range |-> src_range, dest_row |-> dest_row, dest_col |-> dest_col],
            {})

(* services/table.py: move_rows *)
MoveRows(sheet_idx, table_idx, row_indices, target_index) ==
    TableOp("move_rows", sheet_idx, table_idx,
            move_rows_table(TargetTable(workbook, sheet_idx, table_idx),
                            row_indices, target_index),
            target_index, Range(row_indices))

(* services/table.py: delete_rows *)
DeleteRows(sheet_idx, table_idx, row_indices) ==
    TableOp("delete_rows", sheet_idx, table_idx,
            delete_rows_table(TargetTable(workbook, sheet_idx, table_idx),
                              row_indices),
            None, Range(row_indices))

(* services/workbook.py: initialize_tab_order_from_structure(md_text,
   config, num_sheets) is imported by services/document.py but is not in
   the source tree; from the specification: one entry per document and per
   sheet in file order, the sheets standing where the workbook section is,
   or at the end when the text has no workbook section. *)
RECURSIVE SynthEntries(_, _, _, _)
SynthEntries(secs, num_sheets, doc_index, emitted) ==
    IF secs = <<>>
    THEN IF emitted THEN <<>> ELSE [i \in 1..num_sheets |-> Entry("sheet", i - 1)]
    ELSE IF Head(secs).type = "workbook"
         THEN (IF emitted THEN <<>>
               ELSE [i \in 1..num_sheets |-> Entry("sheet", i - 1)])
                 \o SynthEntries(Tail(secs), num_sheets, doc_index, TRUE)
         ELSE <<Entry("document", doc_index)>>
                 \o SynthEntries(Tail(secs), num_sheets, doc_index + 1, emitted)

initialize_tab_order_from_structure(lines, cfg, num_sheets) ==
    SynthEntries(ScanSections(lines, cfg.rootMarker), num_sheets, 0, FALSE)

(* the heading line of a document added with title N *)
DocN == <<"#", " ", "N">>

(* services/document.py: add_document, the insertion line *)
InsertLine(lines, root_marker, after_doc_index, after_workbook) ==
    LET secs == ScanSections(lines, root_marker)
        docs == DocSections(lines, root_marker)
        wbs == {k \in 1..Len(secs) : secs[k].type = "workbook"}
    IN IF after_workbook
       THEN IF wbs = {} THEN 0
            ELSE secs[CHOOSE k \in wbs : \A q \in wbs : k <= q].end + 1
       ELSE IF after_doc_index >= 0
       THEN IF after_doc_index < Len(docs)
            THEN docs[after_doc_index + 1].end + 1
            ELSE Len(lines)
       ELSE 0

(* tab_order[i] = {"type": "document", "index": entry["index"] + 1}: a new
   dict replaces the entry in the copied list *)
RECURSIVE BumpDocs(_, _, _)
BumpDocs(h, addrs, new_doc_index) ==
    IF addrs = <<>> THEN [heap |-> h, order |-> <<>>]
    ELSE LET a == Head(addrs)
             bump == h[a].type = "document" /\ h[a].index >= new_doc_index
             h1 == IF bump THEN Append(h, Entry("document", h[a].index + 1)) ELSE h
             rest == BumpDocs(h1, Tail(addrs), new_doc_index)
         IN [heap |-> rest.heap,
             order |-> <<IF bump THEN Len(h1) ELSE a>> \o rest.order]

(* services/document.py: add_document, the tab_order update *)
add_document_tab_order(wb, h, lines, cfg, after_doc_index, insert_after_tab_order_index) ==
    LET synth == initialize_tab_order_from_structure(lines, cfg, Len(wb.sheets))
        h0 == IF wb.tab_order = <<>> THEN h \o synth ELSE h
        order0 == IF wb.tab_order = <<>>
                  THEN [i \in 1..Len(synth) |-> Len(h) + i]
                  ELSE wb.tab_order
        new_doc_index == IF after_doc_index >= 0 THEN after_doc_index + 1 ELSE 0
        bumped == BumpDocs(h0, order0, new_doc_index)
        h1 == Append(bumped.heap, Entry("document", new_doc_index))
        order == IF insert_after_tab_order_index >= 0
                 THEN InsertAt(bumped.order,
                               Min(insert_after_tab_order_index + 1, Len(bumped.order)),
                               Len(h1))
                 ELSE Append(bumped.order, Len(h1))
    IN [wb |-> [wb EXCEPT !.has_tab_order = TRUE, !.tab_order = order],
        heap |-> h1]

(* services/document.py: add_document *)
AddDocument(after_doc_index, after_workbook, insert_after_tab_order_index) ==
    /\ pre' = Snapshot
    /\ nops' = nops + 1
    /\ UNCHANGED <<config, schema>>
    /\ IF ~JsonLoadsOk(config)
       THEN /\ ret' = Ret("add_document", "error")
            /\ UNCHANGED <<md_text, workbook, heap>>
       ELSE LET insert_line == InsertLine(md_text, config.rootMarker,
                                          after_doc_index, after_workbook)
                new_lines == IF insert_line > 0
                             THEN <<EmptyLine, DocN, EmptyLine>>
                             ELSE <<DocN, EmptyLine>>
                cut == Min(insert_line, Len(md_text))
                r == add_document_tab_order(workbook, heap, md_text, config,
                                            after_doc_index,
                                            insert_after_tab_order_index)
            IN /\ md_text' = SubSeq(md_text, 1, cut) \o new_lines
                                \o SubSeq(md_text, cut + 1, Len(md_text))
               /\ IF workbook.present
                  THEN workbook' = r.wb /\ heap' = r.heap
                  ELSE UNCHANGED <<workbook, heap>>
               /\ ret' = [Ret("add_document", "ok") EXCEPT
                            !.startLine = insert_line, !.endLine = insert_line,
                            !.content = new_lines \o <<EmptyLine>>,
                            !.arg = after_doc_index]

(* services/document.py: delete_document, its own scanner: a heading is a
   stripped line whose leading run of # has length docHeaderLevel; a fence
   line toggles in_code_block and is skipped.  No config of the model sets
   docHeaderLevel, so the default applies. *)
DefaultDocHeaderLevel == 1

DeleteHeadingLines(lines) ==
    SortedSeq({i \in 0..(Len(lines) - 1) :
                  /\ ~startswith(strip(Line(lines, i)), Fence)
                  /\ ~InCodeBlockAt(lines, i)
                  /\ get_level(strip(Line(lines, i))) = DefaultDocHeaderLevel})

DeleteSections(lines, root_marker) ==
    LET H == DeleteHeadingLines(lines)
    IN [k \in 1..Len(H) |->
          [start |-> H[k],
           end |-> IF k < Len(H) THEN H[k + 1] - 1 ELSE Len(lines) - 1,
           type |-> IF strip(Line(lines, H[k])) = root_marker
                    THEN "workbook" ELSE "document"]]

(* while end_line > start_line and lines[end_line].strip() == "" *)
RECURSIVE TrimBlank(_, _, _)
TrimBlank(lines, start_line, end_line) ==
    IF end_line > start_line /\ strip(Line(lines, end_line)) = <<>>
    THEN TrimBlank(lines, start_line, end_line - 1)
    ELSE end_line

(* the rebuild without the index - 1 of the later documents *)
RECURSIVE DropDoc_keep(_, _, _)
DropDoc_keep(h, addrs, doc_index) ==
    IF addrs = <<>> THEN [heap |-> h, order |-> <<>>]
    ELSE LET a == Head(addrs)
             rest == DropDoc_keep(h, Tail(addrs), doc_index)
         IN IF h[a].type = "document" /\ h[a].index = doc_index
            THEN rest
            ELSE [heap |-> rest.heap, order |-> <<a>> \o rest.order]

(* services/document.py: delete_document, the tab_order rebuild: the entry
   of the deleted document is skipped, a later document gets a new dict with
   index - 1, every other entry is kept *)
RECURSIVE DropDoc(_, _, _)
DropDoc(h, addrs, doc_index) ==
    IF addrs = <<>> THEN [heap |-> h, order |-> <<>>]
    ELSE LET a == Head(addrs)
             isdoc == h[a].type = "document"
             later == isdoc /\ h[a].index > doc_index
             h1 == IF later THEN Append(h, Entry("document", h[a].index - 1)) ELSE h
             rest == DropDoc(h1, Tail(addrs), doc_index)
         IN IF isdoc /\ h[a].index = doc_index
            THEN rest
            ELSE [heap |-> rest.heap,
                  order |-> <<IF later THEN Len(h1) ELSE a>> \o rest.order]

(* services/document.py: delete_document.  "\n".join([]) is "", the text of
   one empty line. *)
DeleteDocument(doc_index) ==
    /\ pre' = Snapshot
    /\ nops' = nops + 1
    /\ UNCHANGED <<config, schema>>
    /\ LET docs == SelectSeq(DeleteSections(md_text, config.rootMarker),
                             IsDocumentSection)
       IN IF md_text = <<EmptyLine>> \/ ~JsonLoadsOk(config)
             \/ doc_index < 0 \/ doc_index >= Len(docs)
          THEN /\ ret' = [Ret("delete_document", "error") EXCEPT !.arg = doc_index]
               /\ UNCHANGED <<md_text, workbook, heap>>
          ELSE LET start_line == docs[doc_index + 1].start
                   trimmed == TrimBlank(md_text, start_line, docs[doc_index + 1].end)
                   end_line == IF trimmed < Len(md_text) - 1
                               THEN trimmed + 1 ELSE trimmed
                   rest == SubSeq(md_text, 1, start_line)
                              \o SubSeq(md_text, end_line + 2, Len(md_text))
                   r == DropDoc(heap, workbook.tab_order, doc_index)
               IN /\ md_text' = IF rest = <<>> THEN <<EmptyLine>> ELSE rest
                  /\ IF workbook.present /\ MetadataTruthy(workbook)
                     THEN /\ workbook' = [workbook EXCEPT !.has_tab_order = TRUE,
                                                          !.tab_order = r.order]
                          /\ heap' = r.heap
                     ELSE UNCHANGED <<workbook, heap>>
                  /\ ret' = [Ret("delete_document", "ok") EXCEPT
                               !.startLine = start_line, !.endLine = end_line,
                               !.content = <<EmptyLine>>, !.arg = doc_index]

(* services/document.py: get_document_section_range on the session; it has
   no try/except, json.loads(config) propagates *)
GetDocumentSectionRange(n) ==
    /\ pre' = Snapshot
    /\ nops' = nops + 1
    /\ UNCHANGED <<md_text, config, schema, workbook, heap>>
    /\ IF ~JsonLoadsOk(config)
       THEN ret' = Ret("get_document_section_range", "raise")
       ELSE LET r == get_document_section_range(md_text, config, n)
            IN ret' = [Ret("get_document_section_range",
                           IF r.error THEN "error" ELSE "ok") EXCEPT
                         !.startLine = r.start_line, !.endLine = r.end_line,
                         !.endCol = r.end_col, !.arg = n]

(***************************************************************************)
(* Session specification: the editor session from construction, at most    *)
(* MaxOps calls.                                                           *)
(***************************************************************************)
MaxOps == 3

SampleTable == Table(<<"A", "B">>, <<<<"1", "2">>>>, EmptyMetadata)

Sample1 == [text |-> <<RootT, SheetS, Plain>>,
            sheets |-> <<Sheet(Name("S", 1), <<SampleTable>>)>>,
            has_tab_order |-> FALSE, tab_order |-> <<>>, other_meta |-> FALSE]

Sample2 == [text |-> <<DocA, RootT, SheetS, SheetS, DocA>>,
            sheets |-> <<Sheet(Name("S", 1), <<SampleTable>>),
                         Sheet(Name("S", 2), <<SampleTable>>)>>,
            has_tab_order |-> TRUE,
            tab_order |-> <<Entry("document", 0), Entry("sheet", 0),
                            Entry("sheet", 1), Entry("document", 1)>>,
            other_meta |-> FALSE]

Sample3 == [text |-> <<DocA, RootT, SheetS>>,
            sheets |-> <<Sheet(Name("S", 1), <<SampleTable>>)>>,
            has_tab_order |-> FALSE, tab_order |-> <<>>, other_meta |-> FALSE]

Samples == {Sample1, Sample2, Sample3}

Init ==
    /\ md_text = <<EmptyLine>>
    /\ config = ConfigNone
    /\ schema = FALSE
    /\ workbook = NoneWorkbook
    /\ heap = <<>>
    /\ ret = NoRet
    /\ pre = NoPre
    /\ nops = 0

DoInitializeWorkbook ==
    /\ nops < MaxOps
    /\ \E sample \in Samples, cfg \in {ConfigNone, ConfigBad} :
          InitializeWorkbook(sample, cfg)

DoAddSheet ==
    /\ nops < MaxOps
    /\ \E new_name \in {<<>>, Name("N", 1)}, after \in {None, 0}, target \in {None, 1} :
          AddSheet(new_name, after, target)

DoRenameSheet ==
    /\ nops < MaxOps
    /\ \E sheet_idx \in {0, 2} : RenameSheet(sheet_idx, Name("R", 1))

DoMoveSheet ==
    /\ nops < MaxOps
    /\ \E from_index \in 0..2, to_index \in 0..1, target \in {None, 0, 3, 9} :
          MoveSheet(from_index, to_index, target)

DoInsertColumn ==
    /\ nops < MaxOps
    /\ \E sheet_idx \in {0, 2}, table_idx \in {0, 1}, col_idx \in {0, 5} :
          InsertColumn(sheet_idx, table_idx, col_idx)

DoDeleteColumns ==
    /\ nops < MaxOps
    /\ \E sheet_idx \in {0, 2}, table_idx \in {0, 1}, col_indices \in {<<0>>, <<5>>} :
          DeleteColumns(sheet_idx, table_idx, col_indices)

DoUpdateColumnWidth ==
    /\ nops < MaxOps
    /\ \E sheet_idx \in {0, 2}, table_idx \in {0, 1}, col_idx \in {0, 5} :
          UpdateColumnWidth(sheet_idx, table_idx, col_idx, 100)

DoAddDocument ==
    /\ nops < MaxOps
    /\ \E after_doc_index \in {-1, 0}, after_workbook \in BOOLEAN,
          insert_after_tab_order_index \in {-1, 0} :
          AddDocument(after_doc_index, after_workbook, insert_after_tab_order_index)

DoDeleteDocument ==
    /\ nops < MaxOps
    /\ \E doc_index \in 0..2 : DeleteDocument(doc_index)

DoGetDocumentSectionRange ==
    /\ nops < MaxOps
    /\ \E n \in 0..1 : GetDocumentSectionRange(n)

Next ==
    \/ DoInitializeWorkbook
    \/ DoAddSheet
    \/ DoRenameSheet
    \/ DoMoveSheet
    \/ DoInsertColumn
    \/ DoDeleteColumns
    \/ DoUpdateColumnWidth
    \/ DoAddDocument
    \/ DoDeleteDocument
    \/ DoGetDocumentSectionRange

Spec == Init /\ [][Next]_vars

(***************************************************************************)
(* Column specification: one sheet, one table of at most MaxCols columns   *)
(* whose metadata carries column-indexed maps; column operations only.     *)
(***************************************************************************)
MaxCols == 3

MaxColOps == 1

HeaderNames == <<"A", "B", "C", "D", "E", "F">>

ColTag == <<"c0", "c1", "c2", "c3", "c4", "c5">>

(* the value stored under column key k before any operation *)
ColValue(k) == [tag |-> ColTag[k + 1], width |-> 0]

RECURSIVE ItemsOf(_)
ItemsOf(K) ==
    IF K = {} THEN <<>>
    ELSE LET k == CHOOSE a \in K : \A b \in K : a <= b
         IN <<[k |-> k, v |-> ColValue(k)]>> \o ItemsOf(K \ {k})

DictOf(K) == IF K = {} THEN NoDict ELSE Dict(ItemsOf(K), {})

ColMetadata(K1, K2, legacy) ==
    [validation |-> IF legacy THEN DictOf(K1) ELSE NoDict,
     visual |-> [has |-> (K1 \cup K2) # {},
                 column_widths |-> DictOf(K2),
                 validation |-> DictOf(K2),
                 columns |-> DictOf(K1),
                 filters |-> DictOf(K1)],
     columnWidths |-> IF legacy THEN DictOf(K2) ELSE NoDict,
     other |-> FALSE]

ColTable(n, K1, K2, legacy) ==
    Table(SubSeq(HeaderNames, 1, n), <<[j \in 1..n |-> ColTag[j]]>>,
          ColMetadata(K1, K2, legacy))

ColInit ==
    /\ md_text = <<RootT, SheetS, Plain>>
    /\ config = ConfigNone
    /\ schema = TRUE
    /\ \E n \in 1..MaxCols :
          \E K1 \in SUBSET (0..(n - 1)), legacy \in BOOLEAN :
          \E K2 \in {{}, K1} :
             workbook = Workbook(<<Sheet(Name("S", 1), <<ColTable(n, K1, K2, legacy)>>)>>)
    /\ heap = <<>>
    /\ ret = NoRet
    /\ pre = NoPre
    /\ nops = 0

ColInsertColumn ==
    /\ nops < MaxColOps
    /\ \E col_idx \in 0..(MaxCols + 1) : InsertColumn(0, 0, col_idx)

ColDeleteColumns ==
    /\ nops < MaxColOps
    /\ \E col_indices \in {<<0>>, <<1>>, <<0, 2>>, <<2, 0>>, <<1, 2>>, <<5>>, <<0, 0>>} :
          DeleteColumns(0, 0, col_indices)

ColUpdateColumnWidth ==
    /\ nops < MaxColOps
    /\ \E col_idx \in {0, 1, MaxCols} : UpdateColumnWidth(0, 0, col_idx, 100)

ColMoveColumns ==
    /\ nops < MaxColOps
    /\ \E col_indices \in {<<0>>, <<2>>, <<0, 2>>, <<1, 0>>, <<5>>},
          target_index \in 0..MaxCols :
          MoveColumns(0, 0, col_indices, target_index)

ColNext ==
    \/ ColInsertColumn
    \/ ColDeleteColumns
    \/ ColUpdateColumnWidth
    \/ ColMoveColumns

SpecCol == ColInit /\ [][ColNext]_vars

(***************************************************************************)
(* Shift specification: _shift_column_metadata as a function.  The         *)
(* metadata of a table of at most MaxCols columns is sent through the      *)
(* shift map insert_column builds for position i, then through the map     *)
(* delete_columns builds for [i] on the widened table; pre keeps the       *)
(* metadata the first shift started from.                                  *)
(***************************************************************************)
ShiftInsert ==
    /\ ret.op = "none"
    /\ \E i \in 0..Len(TargetTable(workbook, 0, 0).headers) :
          LET t == TargetTable(workbook, 0, 0)
              shifted == shift_column_metadata(t.metadata,
                             insert_shift_map(Len(t.headers), i))
          IN /\ workbook' = [workbook EXCEPT
                               !.sheets[1].tables[1].metadata = shifted]
             /\ ret' = [Ret("shift_insert", "ok") EXCEPT
                          !.arg = i, !.sheet_idx = 0, !.table_idx = 0]
    /\ pre' = Snapshot
    /\ nops' = nops + 1
    /\ UNCHANGED <<md_text, config, schema, heap>>

ShiftDelete ==
    /\ ret.op = "shift_insert"
    /\ LET t == TargetTable(workbook, 0, 0)
           shifted == shift_column_metadata(t.metadata,
                          delete_shift_map(Len(t.headers) + 1, {ret.arg}))
       IN workbook' = [workbook EXCEPT !.sheets[1].tables[1].metadata = shifted]
    /\ ret' = [ret EXCEPT !.op = "shift_delete"]
    /\ nops' = nops + 1
    /\ UNCHANGED <<md_text, config, schema, heap, pre>>

ShiftNext == ShiftInsert \/ ShiftDelete

SpecShift == ColInit /\ [][ShiftNext]_vars

(***************************************************************************)
(* Move specification: one sheet, one square table of at most MaxList rows *)
(* and columns, every cell holding its own coordinates and every map of    *)
(* the metadata holding an entry per column.  A first move_rows or         *)
(* move_columns call takes any selection to any target; a second call      *)
(* takes the block the first one formed back to where the selection        *)
(* started.                                                                *)
(***************************************************************************)
MaxList == 5

(* short: the last row lacks its last cell *)
MoveTable(n, short) ==
    Table(SubSeq(HeaderNames, 1, n),
          [i \in 1..n |-> [j \in 1..(IF short /\ i = n THEN n - 1 ELSE n) |->
              ColTag[i] \o ColTag[j]]],
          ColMetadata(0..(n - 1), 0..(n - 1), TRUE))

MoveInit ==
    /\ md_text = <<RootT, SheetS, Plain>>
    /\ config = ConfigNone
    /\ schema = TRUE
    /\ \E n \in 1..MaxList, short \in BOOLEAN :
          workbook = Workbook(<<Sheet(Name("S", 1), <<MoveTable(n, short)>>)>>)
    /\ heap = <<>>
    /\ ret = NoRet
    /\ pre = NoPre
    /\ nops = 0

(* the indices of a set as an ascending list *)
AsList(S) == SortedSeq(S)

ListLength == Len(TargetTable(workbook, 0, 0).headers)

MoveMoveRows ==
    /\ nops = 0
    /\ \E S \in SUBSET (0..(ListLength - 1)), target_index \in 0..ListLength :
          MoveRows(0, 0, AsList(S), target_index)

MoveMoveColumns ==
    /\ nops = 0
    /\ \E S \in SUBSET (0..(ListLength - 1)), target_index \in 0..ListLength :
          MoveColumns(0, 0, AsList(S), target_index)

(* where the block of the last move stands, and the drop target that takes
   it back to the first index of the selection *)
BlockStart ==
    Cardinality({i \in 0..(ret.arg - 1) : i \notin ret.cols /\ i < ListLength})

BlockIndices == [j \in 1..Cardinality(ret.cols) |-> BlockStart + j - 1]

OriginalStart == CHOOSE a \in ret.cols : \A b \in ret.cols : a <= b

BackTarget ==
    IF OriginalStart <= BlockStart THEN OriginalStart
    ELSE OriginalStart + Cardinality(ret.cols)

MoveRowsBack ==
    /\ nops = 1 /\ ret.op = "move_rows" /\ ret.status = "ok" /\ ret.cols # {}
    /\ TableOp("move_rows_back", 0, 0,
               move_rows_table(TargetTable(workbook, 0, 0), BlockIndices, BackTarget),
               BackTarget, ret.cols)

MoveColumnsBack ==
    /\ nops = 1 /\ ret.op = "move_columns" /\ ret.status = "ok" /\ ret.cols # {}
    /\ TableOp("move_columns_back", 0, 0,
               move_columns_table(TargetTable(workbook, 0, 0), BlockIndices, BackTarget),
               BackTarget, ret.cols)

MoveNext == MoveMoveRows \/ MoveMoveColumns \/ MoveRowsBack \/ MoveColumnsBack

SpecMove == MoveInit /\ [][MoveNext]_vars

(***************************************************************************)
(* Tab-order specification: reorder_tab_metadata as a function of the      *)
(* list.  The tab_order is any list of at most MaxTabs distinct entries,   *)
(* sheets and documents numbered in list order.  A first call moves the    *)
(* entry at position p to position q without a physical move (from_idx =   *)
(* to_idx, the index map is the identity); a second call moves the entry   *)
(* at q back to p.  pre keeps the list the first call started from.        *)
(***************************************************************************)
MaxTabs == 5

(* the entry at list position j (1-based) of a list with the given kinds *)
NumberedEntry(kinds, j) ==
    Entry(kinds[j], Cardinality({i \in 1..(j - 1) : kinds[i] = kinds[j]}))

TabWorkbook(kinds) ==
    [present |-> TRUE,
     sheets |-> [k \in 1..Cardinality({i \in 1..Len(kinds) : kinds[i] = "sheet"}) |->
                    Sheet(Name("S", k), <<>>)],
     has_tab_order |-> TRUE,
     tab_order |-> [j \in 1..Len(kinds) |-> j],
     other_meta |-> FALSE]

TabInit ==
    /\ md_text = <<RootT, SheetS, Plain>>
    /\ config = ConfigNone
    /\ schema = TRUE
    /\ \E n \in 1..MaxTabs : \E kinds \in [1..n -> {"sheet", "document"}] :
          /\ workbook = TabWorkbook(kinds)
          /\ heap = [j \in 1..n |-> NumberedEntry(kinds, j)]
    /\ ret = NoRet
    /\ pre = NoPre
    /\ nops = 0

(* the drop index that leaves the entry standing at position q when it is
   taken from position p (0-based) *)
DropIndex(p, q) == IF q > p THEN q + 1 ELSE q

(* reorder_tab_metadata for the entry at position p, no physical move *)
RepositionAt(p, q) ==
    LET e == heap[workbook.tab_order[p + 1]]
    IN reorder_tab_metadata(workbook, heap, e.type, e.index, e.index, DropIndex(p, q))

TabMove ==
    /\ nops = 0
    /\ \E p \in 0..(Len(workbook.tab_order) - 1), q \in 0..(Len(workbook.tab_order) - 1) :
          /\ workbook' = RepositionAt(p, q).wb
          /\ heap' = RepositionAt(p, q).heap
          /\ ret' = [Ret("reorder_tab_metadata", "ok") EXCEPT
                       !.sheet_idx = p, !.to_idx = q, !.arg = DropIndex(p, q)]
    /\ pre' = Snapshot
    /\ nops' = nops + 1
    /\ UNCHANGED <<md_text, config, schema>>

TabMoveBack ==
    /\ nops = 1 /\ ret.op = "reorder_tab_metadata"
    /\ workbook' = RepositionAt(ret.to_idx, ret.sheet_idx).wb
    /\ heap' = RepositionAt(ret.to_idx, ret.sheet_idx).heap
    /\ ret' = [ret EXCEPT !.op = "reorder_tab_metadata_back",
                          !.arg = DropIndex(ret.to_idx, ret.sheet_idx)]
    /\ nops' = nops + 1
    /\ UNCHANGED <<md_text, config, schema, pre>>

TabNext == TabMove \/ TabMoveBack

SpecTab == TabInit /\ [][TabNext]_vars

(***************************************************************************)
(* Cell specification: one sheet, one table whose grid has at most MaxGrid *)
(* rows and columns, every cell holding its own coordinates; one           *)
(* move_cells call with a source rectangle that may reach past the grid.   *)
(***************************************************************************)
MaxGrid == 3

GridTable(nrows, ncols) ==
    Table([j \in 1..ncols |-> <<"h", j>>],
          [i \in 1..nrows |-> [j \in 1..ncols |-> <<i - 1, j - 1>>]],
          EmptyMetadata)

CellInit ==
    /\ md_text = <<RootT, SheetS, Plain>>
    /\ config = ConfigNone
    /\ schema = TRUE
    /\ \E nrows \in 1..MaxGrid, ncols \in 1..MaxGrid :
          workbook = Workbook(<<Sheet(Name("S", 1), <<GridTable(nrows, ncols)>>)>>)
    /\ heap = <<>>
    /\ ret = NoRet
    /\ pre = NoPre
    /\ nops = 0

SrcRanges ==
    {[minR |-> a, maxR |-> b, minC |-> c, maxC |-> d] :
        a \in 0..(MaxGrid - 1), b \in 0..(MaxGrid - 1),
        c \in 0..(MaxGrid - 1), d \in 0..(MaxGrid - 1)}

CellMoveCells ==
    /\ ret.op = "none"
    /\ \E src_range \in SrcRanges, dest_row \in 0..MaxGrid, dest_col \in 0..MaxGrid,
          table_idx \in 0..1 :
          /\ src_range.minR <= src_range.maxR
          /\ src_range.minC <= src_range.maxC
          /\ MoveCells(0, table_idx, src_range, dest_row, dest_col)

CellNext == CellMoveCells

SpecCells == CellInit /\ [][CellNext]_vars

(***************************************************************************)
(* Scanner specification: every text up to MaxLines lines, every config.   *)
(***************************************************************************)
ScanConfigs == {ConfigNone, ConfigJson(<<>>, 2), ConfigJson(RootT, 3)}

ScanWorkbooks == {NoneWorkbook, Workbook(<<>>), Workbook(<<"S1">>)}

ScanInit ==
    /\ md_text \in Texts
    /\ config \in ScanConfigs
    /\ schema = TRUE
    /\ workbook \in ScanWorkbooks
    /\ heap = <<>>
    /\ ret = NoRet
    /\ pre = NoPre
    /\ nops = 0

CallGetWorkbookRange ==
    /\ ret.op = "none"
    /\ LET r == get_workbook_range(md_text, config.rootMarker,
                                   config.sheetHeaderLevel)
       IN ret' = [Ret("get_workbook_range", "ok") EXCEPT
                    !.startLine = r.start, !.endLine = r.end]
    /\ UNCHANGED <<md_text, config, schema, workbook, heap, pre, nops>>

CallGenerateAndGetRange ==
    /\ ret.op = "none"
    /\ ret' = RangeRet("generate_and_get_range",
                       generate_and_get_range(workbook, schema, md_text, config))
    /\ UNCHANGED <<md_text, config, schema, workbook, heap, pre, nops>>

ScanNext == CallGetWorkbookRange \/ CallGenerateAndGetRange

SpecScan == ScanInit /\ [][ScanNext]_vars

(***************************************************************************)
(* Document-scanner specification.                                         *)
(***************************************************************************)
MaxSectionIndex == 2

DocInit ==
    /\ md_text \in Texts
    /\ config \in {ConfigNone, ConfigJson(<<>>, 2)}
    /\ schema = TRUE
    /\ workbook = NoneWorkbook
    /\ heap = <<>>
    /\ ret = NoRet
    /\ pre = NoPre
    /\ nops = 0

CallGetDocumentSectionRange ==
    /\ ret.op = "none"
    /\ \E n \in 0..MaxSectionIndex :
         LET r == get_document_section_range(md_text, config, n)
         IN ret' = [Ret("get_document_section_range",
                        IF r.error THEN "error" ELSE "ok") EXCEPT
                      !.startLine = r.start_line, !.endLine = r.end_line,
                      !.endCol = r.end_col, !.arg = n]
    /\ UNCHANGED <<md_text, config, schema, workbook, heap, pre, nops>>

CallExtractStructure ==
    /\ ret.op = "none"
    /\ ret' = [Ret("extract_structure", "ok") EXCEPT
                 !.sections = extract_structure(md_text, config.rootMarker)]
    /\ UNCHANGED <<md_text, config, schema, workbook, heap, pre, nops>>

DocNext == CallGetDocumentSectionRange \/ CallExtractStructure

SpecDoc == DocInit /\ [][DocNext]_vars

(***************************************************************************)
(* Ground truth for "inside a fenced code block": a line that is not       *)
(* itself a fence line and has an odd number of fence lines above it.      *)
(***************************************************************************)
IsFenceLine(line) == startswith(strip(line), Fence)

FencesBefore(lines, i) == Cardinality({j \in 0..(i - 1) : IsFenceLine(Line(lines, j))})

InsideFence(lines, i) ==
    /\ i >= 0 /\ i < Len(lines)
    /\ ~IsFenceLine(Line(lines, i))
    /\ FencesBefore(lines, i) % 2 = 1

(* The text after a text edit that replaces the span from (startLine, 0) to
   (endLine, endCol) by content. *)
ApplyPatch(lines, p) ==
    LET last == Line(lines, p.endLine)
        rest == SubSeq(last, p.endCol + 1, Len(last))
        k == Len(p.content)
    IN SubSeq(lines, 1, p.startLine)
       \o SubSeq(p.content, 1, k - 1)
       \o <<p.content[k] \o rest>>
       \o SubSeq(lines, p.endLine + 2, Len(lines))

(* the last n lines of a text *)
LastLines(lines, n) == SubSeq(lines, Len(lines) - n + 1, Len(lines))

(* C2: the startLine returned by get_workbook_range is never a line inside
   a fenced code block. *)
C2_StartNotInFence ==
    ret.op = "get_workbook_range" => ~InsideFence(md_text, ret.startLine)

(* Witness: a root-marker line inside a fence was skipped and the real
   marker after it was returned. *)
C2_Witness ==
    /\ ret.op = "get_workbook_range"
    /\ config.rootMarker = RootT
    /\ ret.startLine < Len(md_text)
    /\ \E j \in 0..(ret.startLine - 1) :
          strip(Line(md_text, j)) = RootT /\ InsideFence(md_text, j)

(* C3: the endLine returned by get_workbook_range is never a line inside a
   fenced code block, for a root marker that is present, absent or empty. *)
C3_EndNotInFence ==
    ret.op = "get_workbook_range" => ~InsideFence(md_text, ret.endLine)

(* C1: every public mutation is atomic: when a call returns an error
   result, the held workbook and the held text are what they were before
   the call. *)
C1_ErrorLeavesSessionUntouched ==
    ret.status = "error" =>
        /\ workbook = pre.workbook
        /\ Deep(workbook, heap) = pre.view
        /\ md_text = pre.md_text

(* C6: no operation mutates a previously returned Workbook in place: the
   Workbook obtained before the last call, with its metadata and tab_order
   entries, still reads as it did. *)
C6_OldWorkbookUnchanged ==
    Deep(pre.workbook, heap) = pre.view

(* the operations that address an existing sheet or table by index *)
IndexedOps == {"rename_sheet", "move_sheet", "insert_column", "delete_columns",
               "update_column_width"}

ColumnOps == {"insert_column", "delete_columns", "update_column_width"}

SheetIndexBad ==
    ret.sheet_idx < 0 \/ ret.sheet_idx >= Len(pre.workbook.sheets)

TableIndexBad ==
    /\ ~SheetIndexBad
    /\ ret.table_idx # None
    /\ (ret.table_idx < 0
          \/ ret.table_idx >= Len(pre.workbook.sheets[ret.sheet_idx + 1].tables))

ColumnIndexBad ==
    /\ ~SheetIndexBad /\ ~TableIndexBad
    /\ (ret.arg < 0
          \/ ret.arg >= Len(TargetTable(pre.workbook, ret.sheet_idx,
                                        ret.table_idx).headers))

(* C7: every operation that takes a sheet, table, row or column index
   answers an out-of-range index with an error and does not mutate the
   model. *)
C7_EveryIndexValidated ==
    (ret.op \in IndexedOps /\ pre.workbook.present
       /\ (SheetIndexBad \/ TableIndexBad
             \/ (ret.op \in ColumnOps /\ ColumnIndexBad))) =>
        /\ ret.status = "error"
        /\ workbook = pre.workbook

(* C7 as amended: an out-of-range sheet index or table index is answered
   with an error and the held workbook is left as it was. *)
C7_SheetAndTableIndexValidated ==
    (ret.op \in IndexedOps /\ pre.workbook.present
       /\ (SheetIndexBad \/ TableIndexBad)) =>
        /\ ret.status = "error"
        /\ workbook = pre.workbook
        /\ Deep(workbook, heap) = pre.view

(* Witness: a table operation on an existing sheet was refused for its
   table index. *)
C7_Witness ==
    /\ ret.op \in ColumnOps
    /\ pre.workbook.present
    /\ TableIndexBad
    /\ ret.status = "error"

(* C8: every public operation returns a structured result; no failure
   reaches the caller as an unhandled exception. *)
C8_NoUnhandledException ==
    ret.status # "raise"

(* the column-indexed maps of a table's metadata *)
ColumnMaps(metadata) ==
    <<metadata.visual.column_widths, metadata.visual.validation,
      metadata.visual.filters, metadata.visual.columns,
      metadata.validation, metadata.columnWidths>>

OldTable == TargetTable(pre.workbook, ret.sheet_idx, ret.table_idx)

NewTable == TargetTable(workbook, ret.sheet_idx, ret.table_idx)

(* the entries of a map as a set, each key sent through f *)
Remapped(d, f(_)) ==
    {[k |-> f(d.items[j].k), v |-> d.items[j].v] : j \in 1..Len(d.items)}

Entries(d) == {d.items[j] : j \in 1..Len(d.items)}

InsertPos == Max(0, Min(ret.arg, Len(OldTable.headers)))

InsertLaw(k) == IF k < InsertPos THEN k ELSE k + 1

(* C9: insert remap law: after a column insert at position i, every
   column-indexed metadata key k < i is still k, every key k >= i has
   become k+1, and no metadata key equals i. *)
C9_InsertRemapLaw ==
    (ret.op = "insert_column" /\ ret.status = "ok") =>
        \A m \in 1..Len(ColumnMaps(NewTable.metadata)) :
            /\ Entries(ColumnMaps(NewTable.metadata)[m])
                 = Remapped(ColumnMaps(OldTable.metadata)[m], InsertLaw)
            /\ InsertPos \notin Keys(ColumnMaps(NewTable.metadata)[m].items)

(* the columns a delete really removed *)
Deleted == ret.cols \cap (0..(Len(OldTable.headers) - 1))

DeleteLaw(k) == k - Cardinality({d \in Deleted : d < k})

Surviving(d) ==
    [d EXCEPT !.items = SelectSeq(d.items, LAMBDA it : it.k \notin Deleted)]

(* C10: delete remap law: after deleting the set D of columns, no metadata
   entry keyed by an index of D is left, and every surviving key k has
   become k minus the number of deleted indices smaller than k. *)
C10_DeleteRemapLaw ==
    (ret.op = "delete_columns" /\ ret.status = "ok") =>
        \A m \in 1..Len(ColumnMaps(NewTable.metadata)) :
            Entries(ColumnMaps(NewTable.metadata)[m])
                = Remapped(Surviving(ColumnMaps(OldTable.metadata)[m]), DeleteLaw)

ShapeOps == {"insert_column", "delete_columns", "move_columns"}

(* the shift map the last column operation built *)
OpShiftMap ==
    LET n == Len(OldTable.headers)
    IN CASE ret.op = "insert_column" -> insert_shift_map(n, InsertPos)
         [] ret.op = "delete_columns" -> delete_shift_map(n, ret.cols)
         [] ret.op = "move_columns" -> move_shift_map(n, SortedSeq(ret.cols), ret.arg)

(* visual.column_widths, visual.validation, visual.filters, visual.columns
   and the legacy columnWidths, as positions of ColumnMaps *)
KnownMaps == {1, 2, 3, 4, 6}

(* C11: every column insert, delete and move remaps, through the one shift
   map of the operation, the keys of visual.column_widths,
   visual.validation, visual.filters, visual.columns and of the legacy
   top-level columnWidths. *)
C11_EveryKnownMapRemapped ==
    (ret.op \in ShapeOps /\ ret.status = "ok") =>
        \A m \in KnownMaps :
            Entries(ColumnMaps(NewTable.metadata)[m])
                = Entries(shift_dict(ColumnMaps(OldTable.metadata)[m], OpShiftMap))

KeysValid(t) ==
    \A m \in 1..Len(ColumnMaps(t.metadata)) :
        \A k \in Keys(ColumnMaps(t.metadata)[m].items) :
            0 <= k /\ k < Len(t.headers)

(* C12: after insert_column, delete_columns or move_columns on a table
   whose column-indexed metadata keys were all valid column indices, every
   key of every column-indexed metadata map is again a valid column index,
   in [0, number of headers). *)
C12_KeysStayValid ==
    (ret.op \in ShapeOps /\ ret.status = "ok" /\ KeysValid(OldTable)) =>
        KeysValid(NewTable)

(* where the column that was at k is after the operation (headers of the
   column specification are pairwise distinct) *)
NewPosition(k) ==
    IF k < 0 \/ k >= Len(OldTable.headers) THEN k
    ELSE (CHOOSE j \in 1..Len(NewTable.headers) :
             NewTable.headers[j] = OldTable.headers[k + 1]) - 1

(* C13: move_columns keeps per-column metadata attached to its column: the
   cells move with their header, and the metadata entry keyed by old index
   k ends up keyed by the new index of the column that was at k. *)
C13_MoveKeepsMetadataAttached ==
    (ret.op = "move_columns" /\ ret.status = "ok") =>
        /\ Len(NewTable.headers) = Len(OldTable.headers)
        /\ \A k \in 0..(Len(OldTable.headers) - 1) :
              \A r \in 1..Len(OldTable.rows) :
                  NewTable.rows[r][NewPosition(k) + 1] = OldTable.rows[r][k + 1]
        /\ \A m \in 1..Len(ColumnMaps(NewTable.metadata)) :
              Entries(ColumnMaps(NewTable.metadata)[m])
                  = Remapped(ColumnMaps(OldTable.metadata)[m], NewPosition)

(* the tab_order a holder of the current workbook reads *)
TabOrderNow == Deep(workbook, heap).tab_order

(* the entry the last add_sheet or add_document created *)
AddedEntry ==
    IF ret.op = "add_sheet" THEN Entry("sheet", ret.arg)
    ELSE Entry("document", IF ret.arg >= 0 THEN ret.arg + 1 ELSE 0)

(* an entry as it was before the new item took its index *)
BeforeAdd(e) ==
    IF e.type = AddedEntry.type /\ e.index > AddedEntry.index
    THEN [e EXCEPT !.index = @ - 1] ELSE e

(* tab_order synthesized from the structure the text had before the call *)
SynthBefore ==
    initialize_tab_order_from_structure(pre.md_text, config,
                                        Len(pre.workbook.sheets))

AddedToEmptyTabOrder ==
    /\ ret.op \in {"add_sheet", "add_document"}
    /\ ret.status = "ok"
    /\ pre.workbook.present
    /\ pre.workbook.tab_order = <<>>

(* C14: when a sheet or a document is added while the workbook has no
   tab_order, the tab_order is the one synthesized from the structure of
   the text (documents and sheets in file order) with the new entry added;
   it is left out only when there are no documents and the list is the
   trivial one. *)
C14_TabOrderSynthesizedFirst ==
    AddedToEmptyTabOrder =>
        IF TabOrderNow = <<>>
        THEN \A j \in 1..Len(SynthBefore) : SynthBefore[j].type = "sheet"
        ELSE \E pos \in 1..Len(TabOrderNow) :
                /\ TabOrderNow[pos] = AddedEntry
                /\ LET rest == RemoveAt(TabOrderNow, pos - 1)
                   IN [j \in 1..Len(rest) |-> BeforeAdd(rest[j])] = SynthBefore

(* positions (1-based) of the entries of the tab_order held before the
   call that are of the moved kind and carry the moved index *)
MovedPositions ==
    {j \in 1..Len(pre.view.tab_order) :
        pre.view.tab_order[j] = Entry("sheet", ret.sheet_idx)}

Repositioned ==
    /\ ret.op = "move_sheet"
    /\ ret.status = "ok"
    /\ ret.arg # None
    /\ MovedPositions # {}

Without(seq, j) == SubSeq(seq, 1, j - 1) \o SubSeq(seq, j + 1, Len(seq))

(* C15: list reposition: the moved entry is taken from its list position c
   and put back at the target display index t, decremented by one exactly
   when c < t and clamped to [0, length]; the other entries keep their
   relative order.  Entries are the dicts themselves (addresses). *)
C15_RepositionListRelative ==
    Repositioned =>
        LET c1 == CHOOSE j \in MovedPositions : \A q \in MovedPositions : q <= j
            moved == pre.workbook.tab_order[c1]
            t == IF c1 - 1 < ret.arg THEN ret.arg - 1 ELSE ret.arg
            rest == Without(pre.workbook.tab_order, c1)
            place == Max(0, Min(t, Len(rest)))
        IN /\ Len(workbook.tab_order) = Len(pre.workbook.tab_order)
           /\ workbook.tab_order[place + 1] = moved
           /\ Without(workbook.tab_order, place + 1) = rest

(* Witness: an entry standing before the target was moved towards the end
   of the list. *)
C15_Witness ==
    /\ Repositioned
    /\ \E j \in MovedPositions : j - 1 < ret.arg /\ ret.arg <= Len(pre.view.tab_order)
    /\ workbook.tab_order # pre.workbook.tab_order

(* the pop/insert map of the physical move of the last move_sheet: the new
   physical index of the sheet that was at k *)
PhysicalMove(k) ==
    LET n == Len(pre.workbook.sheets)
        from == ret.sheet_idx
        ins == Max(0, Min(ret.to_idx, n - 1))
    IN IF k = from THEN ins
       ELSE IF from < k /\ k <= ins THEN k - 1
       ELSE IF ins <= k /\ k < from THEN k + 1
       ELSE k

ScenarioB == <<Entry("document", 0), Entry("sheet", 0),
               Entry("sheet", 1), Entry("document", 1)>>

(* C16: moving a sheet rewrites the logical index of every sheet entry of
   the tab_order through the pop/insert map of the physical move, with or
   without a target display index; from [doc 0, sheet 0, sheet 1, doc 1],
   move_sheet(0, 1) gives the list [doc 0, sheet 0, sheet 1, doc 1]. *)
C16_MoveRewritesSheetIndices ==
    (ret.op = "move_sheet" /\ ret.status = "ok") =>
        /\ \A j \in 1..Len(pre.workbook.tab_order) :
              pre.view.tab_order[j].type = "sheet" =>
                  heap[pre.workbook.tab_order[j]].index
                      = PhysicalMove(pre.view.tab_order[j].index)
        /\ (pre.view.tab_order = ScenarioB /\ ret.sheet_idx = 0
              /\ ret.to_idx = 1 /\ ret.arg = None) =>
                  TabOrderNow = ScenarioB

(* positions of the tab_order before the last delete_document whose entry
   is not the deleted document's *)
KeptPositions ==
    SortedSeq({j \in 1..Len(pre.view.tab_order) :
                  ~(pre.view.tab_order[j].type = "document"
                      /\ pre.view.tab_order[j].index = ret.arg)})

DocumentDeleted ==
    /\ ret.op = "delete_document" /\ ret.status = "ok"
    /\ pre.workbook.present /\ pre.view.has_tab_order

(* C17: deleting a document removes exactly the tab_order entry of that
   document, decrements by one the index of every document entry whose index
   was greater, and leaves the sheet entries and the relative order of all
   remaining entries unchanged.  (delete_sheet hands the whole deletion to
   Workbook.delete_sheet of the md_spreadsheet_parser package, which is not
   part of the source tree; the property is stated for delete_document.) *)
C17_DeleteShiftsSameKind ==
    DocumentDeleted =>
        /\ Len(TabOrderNow) = Len(KeptPositions)
        /\ \A k \in 1..Len(KeptPositions) :
              LET old == pre.view.tab_order[KeptPositions[k]]
              IN /\ TabOrderNow[k].type = old.type
                 /\ TabOrderNow[k].index =
                       IF old.type = "document" /\ old.index > ret.arg
                       THEN old.index - 1 ELSE old.index

C17_Witness ==
    /\ DocumentDeleted
    /\ \E i, j, k \in 1..Len(pre.view.tab_order) :
          /\ pre.view.tab_order[i] = Entry("document", ret.arg)
          /\ pre.view.tab_order[j].type = "document"
          /\ pre.view.tab_order[j].index > ret.arg
          /\ pre.view.tab_order[k].type = "sheet"

(* the rectangles of the last move_cells *)
MoveHeight == ret.arg.src_range.maxR - ret.arg.src_range.minR + 1

MoveWidth == ret.arg.src_range.maxC - ret.arg.src_range.minC + 1

InSource(r, c) ==
    InRect(r, c, ret.arg.src_range.minR, ret.arg.src_range.minC, MoveHeight, MoveWidth)

InDestination(r, c) ==
    InRect(r, c, ret.arg.dest_row, ret.arg.dest_col, MoveHeight, MoveWidth)

RectanglesOverlap ==
    \E r \in 0..(2 * MaxGrid), c \in 0..(2 * MaxGrid) :
        InSource(r, c) /\ InDestination(r, c)

CellsMoved == ret.op = "move_cells" /\ ret.status = "ok"

(* C18: after move_cells every destination cell (destRow+r, destCol+c)
   holds the value the source cell (minR+r, minC+c) had before the call, and
   every source cell outside the destination rectangle is empty, also when
   the two rectangles overlap.  A cell past the end of its row or of the
   grid reads as the empty value, as in the source. *)
C18_MoveCellsLosesNothing ==
    CellsMoved =>
        /\ \A r \in 0..(MoveHeight - 1), c \in 0..(MoveWidth - 1) :
              CellAt(NewTable.rows, ret.arg.dest_row + r, ret.arg.dest_col + c)
                 = CellAt(OldTable.rows, ret.arg.src_range.minR + r,
                          ret.arg.src_range.minC + c)
        /\ \A r \in 0..(2 * MaxGrid), c \in 0..(2 * MaxGrid) :
              (InSource(r, c) /\ ~InDestination(r, c)) =>
                  CellAt(NewTable.rows, r, c) = EmptyCell

(* a shift by one row of a rectangle of two rows that lies inside the grid *)
C18_Witness ==
    /\ CellsMoved
    /\ RectanglesOverlap
    /\ ret.arg.dest_row = ret.arg.src_range.minR + 1
    /\ ret.arg.dest_col = ret.arg.src_range.minC
    /\ MoveHeight = 2
    /\ ret.arg.src_range.maxR < Len(OldTable.rows)
    /\ CellAt(NewTable.rows, ret.arg.dest_row, ret.arg.dest_col)
          = <<ret.arg.src_range.minR, ret.arg.src_range.minC>>
    /\ CellAt(NewTable.rows, ret.arg.src_range.minR, ret.arg.src_range.minC) = EmptyCell

(* Level-1 headings that are really outside every fence. *)
RealHeadings(lines) ==
    {i \in 0..(Len(lines) - 1) : IsH1(Line(lines, i)) /\ ~InsideFence(lines, i)}

RealDocHeadings(lines, root_marker) ==
    SortedSeq({i \in RealHeadings(lines) : strip(Line(lines, i)) # root_marker})

(* the last line of the section that starts at the real heading h *)
RealSectionEnd(lines, h) ==
    LET later == {j \in RealHeadings(lines) : j > h}
    IN IF later = {} THEN Len(lines) - 1
       ELSE (CHOOSE j \in later : \A k \in later : j <= k) - 1

IsDocumentEntry(e) == e.type = "document"

(* C4: a heading inside a fence never starts or ends a document section:
   get_document_section_range(N) returns the N-th level-1 non-root heading
   outside fences together with everything up to the next such heading
   (fenced headings included), an index past the last real section is an
   error, and extract_structure lists exactly the real sections. *)
C4_FencedHeadingsNotSections ==
    LET D == RealDocHeadings(md_text, config.rootMarker)
    IN /\ ret.op = "get_document_section_range" =>
             IF ret.arg >= Len(D) THEN ret.status = "error"
             ELSE /\ ret.status = "ok"
                  /\ ret.startLine = D[ret.arg + 1]
                  /\ ret.endLine = RealSectionEnd(md_text, D[ret.arg + 1])
                  /\ ret.endCol = Len(Line(md_text, ret.endLine))
       /\ ret.op = "extract_structure" =>
             LET docs == SelectSeq(ret.sections, IsDocumentEntry)
             IN /\ Len(docs) = Len(D)
                /\ \A k \in 1..Len(D) :
                     /\ docs[k].title = TitleOf(Line(md_text, D[k]))
                     /\ docs[k].content =
                          SubSeq(md_text, D[k] + 2, RealSectionEnd(md_text, D[k]) + 1)

(* Witness: a section range that spans a fenced level-1 heading, and an
   out-of-range index answered with an error on a text that has a fenced
   heading. *)
C4_Witness ==
    /\ ret.op = "get_document_section_range"
    /\ ret.status = "ok"
    /\ \E j \in (ret.startLine + 1)..ret.endLine :
          IsH1(Line(md_text, j)) /\ InsideFence(md_text, j)

(* The end of the workbook region as the scanner reports it. *)
RegionEnd == get_workbook_range(md_text, config.rootMarker,
                                config.sheetHeaderLevel).end

(* C5: when the workbook region is followed by a heading shallower than
   sheetHeaderLevel at line e, the patch replaces up to the end of line e-1,
   and the heading at e and every line after it survive the patch unchanged. *)
C5_PatchStopsBeforeNextHeading ==
    (ret.op = "generate_and_get_range" /\ RegionEnd < Len(md_text)) =>
        /\ ret.endLine = RegionEnd - 1
        /\ ret.endCol = Len(Line(md_text, RegionEnd - 1))
        /\ ret.startLine <= ret.endLine
        /\ LastLines(ApplyPatch(md_text, ret), Len(md_text) - RegionEnd)
             = LastLines(md_text, Len(md_text) - RegionEnd)
        /\ Len(ApplyPatch(md_text, ret))
             = ret.startLine + Len(ret.content) + (Len(md_text) - RegionEnd)

(* Witness: a workbook with a sheet is rendered into a region that is
   followed by a document heading and further text. *)
C5_Witness ==
    /\ ret.op = "generate_and_get_range"
    /\ workbook.present /\ workbook.sheets # <<>>
    /\ RegionEnd < Len(md_text) - 1
    /\ ret.startLine < ret.endLine
    /\ get_level(strip(Line(md_text, RegionEnd))) < config.sheetHeaderLevel

(* C19: when the workbook has no sheets, the content of the workbook patch
   is the empty string. *)
C19_NoSheetsEmptyContent ==
    (ret.op = "generate_and_get_range" /\ workbook.present /\ workbook.sheets = <<>>) =>
        ret.content = <<EmptyLine>>

(* No line outside every fence is the root marker. *)
NoRootMarker ==
    \A i \in 0..(Len(md_text) - 1) :
        strip(Line(md_text, i)) = config.rootMarker => InsideFence(md_text, i)

(* C20: pure append: when the text has no root marker outside a fence, the
   startLine of the patch is at most the last line index of the text, and 0
   for the empty text. *)
C20_AppendStartClamped ==
    (ret.op = "generate_and_get_range" /\ NoRootMarker) =>
        /\ ret.startLine <= Len(md_text) - 1
        /\ md_text = <<EmptyLine>> => ret.startLine = 0

(* A pure append of a rendered workbook to a text that has a character
   other than a newline. *)
PureAppend ==
    /\ ret.op = "generate_and_get_range"
    /\ ret.startLine >= Len(md_text)
    /\ \E i \in 1..Len(md_text) : md_text[i] # EmptyLine
    /\ workbook.present /\ workbook.sheets # <<>> /\ schema

(* old text + content, as one string *)
Appended ==
    SubSeq(md_text, 1, Len(md_text) - 1)
        \o <<md_text[Len(md_text)] \o ret.content[1]>>
        \o Tail(ret.content)

(* the 1-based line of the last character of the old text that is not a
   newline, and the line of the first character of the rendered workbook *)
LastOldLine == CHOOSE i \in 1..Len(md_text) :
                  md_text[i] # EmptyLine /\ \A j \in (i + 1)..Len(md_text) : md_text[j] = EmptyLine

FirstNewLine == CHOOSE i \in (LastOldLine + 1)..Len(Appended) :
                   Appended[i] # EmptyLine /\ \A j \in (LastOldLine + 1)..(i - 1) : Appended[j] = EmptyLine

(* C21 as stated: on a pure append to a non-empty text exactly two newline
   characters separate the last non-newline character of the old text from
   the first character of the rendered workbook, whatever the number of
   trailing newlines of the old text. *)
C21_ExactlyTwoNewlines ==
    PureAppend => FirstNewLine - LastOldLine = 2

(* C21 amended: the content is prefixed with the blank lines that are
   missing for two newlines, and nothing is ever removed: the separation is
   exactly two newlines when the old text ends with at most two, and the old
   text's own trailing newlines when it ends with more. *)
C21_TwoNewlinesUnlessMore ==
    PureAppend =>
        FirstNewLine - LastOldLine = Max(2, Len(md_text) - LastOldLine)

(* Witness: blank lines were prepended for a text with one trailing newline. *)
C21_Witness ==
    /\ PureAppend
    /\ Len(md_text) - LastOldLine = 1
    /\ ret.content[1] = EmptyLine
    /\ ret.content[2] = config.rootMarker

(* the least element of a set of line numbers, or lineCount if it is empty *)
FirstOr(S, lineCount) ==
    IF S = {} THEN lineCount ELSE CHOOSE x \in S : \A y \in S : x <= y

OutsideFence(lines, i) == ~InsideFence(lines, i) /\ ~IsFenceLine(Line(lines, i))

RootLines ==
    {i \in 0..(Len(md_text) - 1) :
        OutsideFence(md_text, i) /\ strip(Line(md_text, i)) = config.rootMarker}

ShallowHeadingsAfter(start) ==
    {i \in (start + 1)..(Len(md_text) - 1) :
        /\ OutsideFence(md_text, i)
        /\ get_level(strip(Line(md_text, i))) >= 1
        /\ get_level(strip(Line(md_text, i))) < config.sheetHeaderLevel}

(* C22: get_workbook_range returns as startLine the first line outside a
   fence whose trimmed content is the root marker, or lineCount if there is
   none, and as endLine the first later line outside a fence that is a
   heading with fewer # than sheetHeaderLevel, or lineCount if there is
   none. *)
C22_RangeIsFirstMarkerToNextHeading ==
    ret.op = "get_workbook_range" =>
        /\ ret.startLine = FirstOr(RootLines, Len(md_text))
        /\ ret.endLine = FirstOr(ShallowHeadingsAfter(ret.startLine), Len(md_text))

(* two dicts are equal: the same key present or absent, the same entries,
   the same non-integer keys; insertion order does not count *)
DictEq(d1, d2) ==
    /\ d1.has = d2.has
    /\ Entries(d1) = Entries(d2)
    /\ Len(d1.items) = Cardinality(Keys(d1.items))
    /\ Len(d2.items) = Cardinality(Keys(d2.items))
    /\ d1.named = d2.named

MetadataEq(m1, m2) ==
    /\ \A j \in 1..Len(ColumnMaps(m1)) : DictEq(ColumnMaps(m1)[j], ColumnMaps(m2)[j])
    /\ m1.visual.has = m2.visual.has
    /\ m1.other = m2.other

(* C23: insert/delete inverse: the insert-at-i shift followed by the
   delete-{i} shift gives back metadata equal to the original, for every
   valid column index i. *)
C23_InsertDeleteInverse ==
    ret.op = "shift_delete" => MetadataEq(NewTable.metadata, OldTable.metadata)

(* Witness: a key at or after i went up by one and came back. *)
C23_Witness ==
    /\ ret.op = "shift_delete"
    /\ \E k \in Keys(OldTable.metadata.visual.columns.items) : k >= ret.arg
    /\ \E k \in Keys(OldTable.metadata.visual.columns.items) : k < ret.arg

(* the cell of a row at column c, a short row read as padded with "" *)
CellOr(row, c) == IF c < Len(row) THEN row[c + 1] ELSE ""

(* the same headers, the same number of rows and the same cell under every
   header *)
SameGrid(t1, t2) ==
    /\ t1.headers = t2.headers
    /\ Len(t1.rows) = Len(t2.rows)
    /\ \A r \in 1..Len(t1.rows) : \A c \in 0..(Len(t1.headers) - 1) :
          CellOr(t1.rows[r], c) = CellOr(t2.rows[r], c)

(* the table before any move: it was short when the cell of its last row
   and last column is nowhere in the table *)
OriginalTable ==
    LET n == Len(NewTable.headers)
        cells == UNION {{NewTable.rows[r][c] : c \in 1..Len(NewTable.rows[r])} :
                           r \in 1..Len(NewTable.rows)}
    IN MoveTable(n, (ColTag[n] \o ColTag[n]) \notin cells)

MovedBack == ret.op \in {"move_rows_back", "move_columns_back"} /\ ret.status = "ok"

(* the selection is one run of consecutive indices *)
Contiguous(S) == \A a \in S, b \in S : \A x \in a..b : x \in S

(* C24 as stated: for every list, every selection and every target, moving
   the selection to the target and then moving the resulting block back to
   its original position restores the original order. *)
C24_MoveRoundTrip ==
    MovedBack => SameGrid(NewTable, OriginalTable)

(* C24 amended: the round trip restores the original order when the
   selection is contiguous. *)
C24_ContiguousMoveRoundTrip ==
    (MovedBack /\ Contiguous(ret.cols)) =>
        /\ SameGrid(NewTable, OriginalTable)
        /\ MetadataEq(NewTable.metadata, OriginalTable.metadata)

(* Witness: a block of two went somewhere else and came back. *)
C24_Witness ==
    /\ MovedBack /\ Contiguous(ret.cols)
    /\ Cardinality(ret.cols) = 2
    /\ ~SameGrid(pre.workbook.sheets[1].tables[1], OriginalTable)
    /\ SameGrid(NewTable, OriginalTable)

(* C25: tab-order round trip: moving the entry at position p to position
   q (after the first call it stands at q) and then moving it back from q to
   p restores the original list. *)
C25_TabOrderRoundTrip ==
    /\ ret.op = "reorder_tab_metadata" =>
          workbook.tab_order[ret.to_idx + 1] = pre.workbook.tab_order[ret.sheet_idx + 1]
    /\ ret.op = "reorder_tab_metadata_back" =>
          /\ workbook.tab_order = pre.workbook.tab_order
          /\ TabOrderNow = pre.view.tab_order

(* Witness: the entry went from the front to the end of a list of five and
   came back. *)
C25_Witness ==
    /\ ret.op = "reorder_tab_metadata_back"
    /\ ret.sheet_idx = 0 /\ ret.to_idx = 4
    /\ Len(workbook.tab_order) = 5
    /\ workbook.tab_order = pre.workbook.tab_order

(* the last call moved a contiguous selection [a..b] to a target inside
   a..b+1 *)
ReDrop ==
    /\ ret.op \in {"move_rows", "move_columns"} /\ ret.status = "ok"
    /\ ret.cols # {} /\ Contiguous(ret.cols)
    /\ \A a \in ret.cols : ret.arg <= a + 1
    /\ \E a \in ret.cols : a <= ret.arg

(* C26: move_rows and move_columns are a no-op on re-drop: for a contiguous
   index set [a..b] and a target t with a <= t <= b+1 the rows, headers,
   cells and column metadata after the call are those before the call (a
   short row read as padded with empty cells). *)
C26_ReDropIsNoOp ==
    ReDrop =>
        /\ SameGrid(NewTable, OldTable)
        /\ MetadataEq(NewTable.metadata, OldTable.metadata)
        /\ ret.op = "move_rows" => NewTable = OldTable

(* Witness: a block of two rows dropped on its own last row. *)
C26_Witness ==
    /\ ReDrop
    /\ ret.op = "move_rows"
    /\ Cardinality(ret.cols) = 2
    /\ ret.arg - 1 \in ret.cols
    /\ NewTable = OldTable

(* the last call moved a selection of valid indices *)
Moved == ret.op \in {"move_rows", "move_columns"} /\ ret.status = "ok" /\ ret.cols # {}

(* the original index of the item that the claim puts at position k (1-based):
   the unselected items in their order, the selected ones in ascending order
   as one block at target minus the number of selected indices below it *)
ExpectedOrder ==
    LET n == Len(OldTable.headers)
        staying == SortedSeq((0..(n - 1)) \ ret.cols)
        selected == SortedSeq(ret.cols)
        at == ret.arg - Cardinality({x \in ret.cols : x < ret.arg})
    IN [k \in 1..n |->
          IF k <= at THEN staying[k]
          ELSE IF k <= at + Len(selected) THEN selected[k - at]
          ELSE staying[k - Len(selected)]]

(* C27: for any index set and any target t with 0 <= t <= n, move_rows and
   move_columns give the unselected items in their original order with the
   selected items as one contiguous block, in ascending original order, at
   position t minus the number of selected indices smaller than t. *)
C27_MovePlacesBlock ==
    Moved =>
        /\ ret.op = "move_rows" =>
              /\ NewTable.rows = [k \in 1..Len(OldTable.rows) |->
                                     OldTable.rows[ExpectedOrder[k] + 1]]
              /\ NewTable.headers = OldTable.headers
        /\ ret.op = "move_columns" =>
              /\ NewTable.headers = [k \in 1..Len(OldTable.headers) |->
                                        OldTable.headers[ExpectedOrder[k] + 1]]
              /\ Len(NewTable.rows) = Len(OldTable.rows)
              /\ \A r \in 1..Len(OldTable.rows) : \A k \in 1..Len(OldTable.headers) :
                    CellOr(NewTable.rows[r], k - 1)
                       = CellOr(OldTable.rows[r], ExpectedOrder[k])

(* Witness: a selection with a gap was gathered into one block in the
   middle of the list. *)
C27_Witness ==
    /\ Moved
    /\ ret.op = "move_columns"
    /\ ~Contiguous(ret.cols)
    /\ \E x \in ret.cols : x < ret.arg
    /\ \E x \in ret.cols : x > ret.arg
    /\ NewTable.headers # OldTable.headers

(***************************************************************************)
(* Delete specification: the tables of the move specification; one         *)
(* delete_rows or delete_columns call whose index list holds any valid     *)
(* indices and any entries outside the table, each at most once.           *)
(***************************************************************************)
(* entries no table of n rows or columns has *)
OutOfRange(n) == {-1, n, n + 2}

(* the index lists of a call *)
IndexLists(n) ==
    {AsList(S \cup E) : S \in SUBSET (0..(n - 1)), E \in SUBSET OutOfRange(n)}

DelDeleteRows ==
    /\ nops = 0
    /\ \E row_indices \in IndexLists(ListLength) : DeleteRows(0, 0, row_indices)

DelDeleteColumns ==
    /\ nops = 0
    /\ \E col_indices \in IndexLists(ListLength) : DeleteColumns(0, 0, col_indices)

DelNext == DelDeleteRows \/ DelDeleteColumns

SpecDelete == MoveInit /\ [][DelNext]_vars

(* a delete call whose list named an entry outside the table *)
DeletedWithOutOfRange ==
    /\ ret.op \in {"delete_rows", "delete_columns"}
    /\ \E x \in ret.cols : x < 0 \/ x >= Len(OldTable.headers)

(* the indices the list did not name, ascending *)
KeptIndices == SortedSeq((0..(Len(OldTable.headers) - 1)) \ ret.cols)

RowsAreTheKept ==
    /\ NewTable.headers = OldTable.headers
    /\ NewTable.rows = [k \in 1..Len(KeptIndices) |-> OldTable.rows[KeptIndices[k] + 1]]

ColumnsAreTheKept ==
    /\ NewTable.headers = [k \in 1..Len(KeptIndices) |-> OldTable.headers[KeptIndices[k] + 1]]
    /\ Len(NewTable.rows) = Len(OldTable.rows)
    /\ \A r \in 1..Len(OldTable.rows) :
          /\ Len(NewTable.rows[r]) = Len(KeptIndices)
          /\ \A k \in 1..Len(KeptIndices) :
                NewTable.rows[r][k] = CellOr(OldTable.rows[r], KeptIndices[k])

(* C28: a delete_rows or delete_columns call whose index list holds
   out-of-range entries succeeds, removes exactly the rows or columns at
   the in-range indices the list names, and keeps every other row or
   column, in the original order (a short row read as padded with empty
   cells; no index is listed twice). *)
C28_DeleteSkipsOutOfRange ==
    DeletedWithOutOfRange =>
        /\ ret.status = "ok"
        /\ ret.op = "delete_rows" => RowsAreTheKept
        /\ ret.op = "delete_columns" => ColumnsAreTheKept

C28_Witness ==
    /\ DeletedWithOutOfRange
    /\ ret.op = "delete_columns"
    /\ \E x \in ret.cols : 0 <= x /\ x < Len(OldTable.headers)
    /\ Len(NewTable.headers) < Len(OldTable.headers)
    /\ NewTable.headers # <<>>

(* an insert_column call that went through *)
InsertedColumn == ret.op = "insert_column" /\ ret.status = "ok"

(* what stood at 0-based position k of a list stands where the insert
   left it, and the new position holds fresh *)
InsertedInto(new, old, fresh) ==
    /\ Len(new) = Len(old) + 1
    /\ new[InsertPos + 1] = fresh
    /\ \A k \in 0..(Len(old) - 1) :
          new[(IF k >= InsertPos THEN k + 1 ELSE k) + 1] = old[k + 1]

ColumnInserted(header) ==
    /\ InsertedInto(NewTable.headers, OldTable.headers, header)
    /\ Len(NewTable.rows) = Len(OldTable.rows)
    /\ \A r \in 1..Len(OldTable.rows) :
          InsertedInto(NewTable.rows[r], OldTable.rows[r], "")

(* C29 as stated: insertColumn(sheetIdx, tableIdx, at) inserts a column
   whose header and cells are all empty, as in headers [A, B] with row
   [1, 2] becoming headers ["", A, B] and row ["", 1, 2]. *)
C29_InsertsEmptyColumn == InsertedColumn => ColumnInserted("")

(* C29 amended: the inserted column has empty cells and the header
   "New Column", the default column_name of the call. *)
C29_InsertsNewColumn == InsertedColumn => ColumnInserted("New Column")

C29_Witness ==
    /\ InsertedColumn
    /\ ret.arg = 0
    /\ OldTable.headers = <<"A", "B">>
    /\ NewTable.headers = <<"New Column", "A", "B">>
    /\ NewTable.rows = <<<<"", "c0", "c1">>>>

(***************************************************************************)
(* Paste specification: the grids of the cell specification; one           *)
(* move_cells or paste_cells call.  A pasted value carries a tag and its   *)
(* place in the pasted block.                                              *)
(***************************************************************************)
PlainTag == 9

PipeTag == 8

EscapedTag == 7

(* services/table.py: _escape_pipe.  An empty value and a value without a
   raw pipe are returned as they are; a raw pipe is rewritten. *)
escape_pipe(value) ==
    IF value = EmptyCell \/ value[1] # PipeTag THEN value
    ELSE <<EscapedTag>> \o Tail(value)

(* f"Col {len(new_headers) + 1}" appended at 1-based position j *)
ColName(j) == <<"Col", j>>

(* services/table.py: paste_cells, the header row of the pasted data *)
PasteHeaders(headers, header_row, start_col) ==
    LET n == IF header_row = <<>> THEN Len(headers)
             ELSE Max(Len(headers), start_col + Len(header_row))
    IN [j \in 1..n |->
          IF start_col < j /\ j <= start_col + Len(header_row)
          THEN header_row[j - start_col]
          ELSE IF j <= Len(headers) THEN headers[j] ELSE ColName(j)]

(* the length of the longest row, 0 without rows *)
MaxWidth(rows) ==
    IF rows = <<>> THEN 0
    ELSE LET i == CHOOSE a \in 1..Len(rows) : \A b \in 1..Len(rows) : Len(rows[a]) >= Len(rows[b])
         IN Len(rows[i])

(* services/table.py: paste_cells, sheet_update_logic on the target table *)
paste_cells_table(t, start_row, start_col, new_data, include_headers) ==
    LET with_headers == include_headers /\ new_data # <<>>
        paste_data == IF with_headers THEN Tail(new_data) ELSE new_data
        new_headers == IF with_headers
                       THEN PasteHeaders(t.headers, new_data[1], start_col)
                       ELSE t.headers
        rows_to_paste == Len(paste_data)
        base_width == Max(Len(new_headers),
                          IF t.rows # <<>> THEN Len(t.rows[1]) ELSE 0)
        grown == t.rows \o [i \in 1..(start_row + rows_to_paste - Len(t.rows)) |->
                               [j \in 1..base_width |-> EmptyCell]]
        max_cols_needed == start_col + MaxWidth(paste_data)
        written == [i \in 1..Len(grown) |->
                      IF start_row < i /\ i <= start_row + rows_to_paste
                      THEN LET row_data == paste_data[i - start_row]
                               wide == grown[i] \o
                                   [j \in 1..(max_cols_needed - Len(grown[i])) |-> EmptyCell]
                           IN [j \in 1..Len(wide) |->
                                 IF start_col < j /\ j <= start_col + Len(row_data)
                                 THEN escape_pipe(row_data[j - start_col])
                                 ELSE wide[j]]
                      ELSE grown[i]]
        global_max_width == Max(MaxWidth(written), Len(new_headers))
    IN IF rows_to_paste = 0 /\ ~include_headers THEN t
       ELSE [t EXCEPT
               !.headers = IF new_headers = <<>> THEN new_headers
                           ELSE [j \in 1..global_max_width |->
                                   IF j <= Len(new_headers) THEN new_headers[j]
                                   ELSE ColName(j)],
               !.rows = [i \in 1..Len(written) |->
                           written[i] \o [j \in 1..(global_max_width - Len(written[i])) |->
                                             EmptyCell]]]

(* services/table.py: paste_cells *)
PasteCells(sheet_idx, table_idx, start_row, start_col, new_data, include_headers) ==
    TableOp("paste_cells", sheet_idx, table_idx,
            paste_cells_table(TargetTable(workbook, sheet_idx, table_idx),
                              start_row, start_col, new_data, include_headers),
            [start_row |-> start_row, start_col |-> start_col,
             new_data |-> new_data, include_headers |-> include_headers],
            {})

MaxPaste == 2

(* the pasted blocks: none, and every block of at most MaxPaste rows and
   columns, with or without raw pipes in its values *)
PasteBlocks ==
    {<<>>} \cup
    {[r \in 1..h |-> [c \in 1..w |-> <<tag, r - 1, c - 1>>]] :
        h \in 1..MaxPaste, w \in 1..MaxPaste, tag \in {PlainTag, PipeTag}}

CellPasteCells ==
    /\ ret.op = "none"
    /\ \E start_row \in 0..MaxGrid, start_col \in 0..MaxGrid, new_data \in PasteBlocks,
          include_headers \in BOOLEAN, table_idx \in 0..1 :
          PasteCells(0, table_idx, start_row, start_col, new_data, include_headers)

PasteNext == CellMoveCells \/ CellPasteCells

SpecPaste == CellInit /\ [][PasteNext]_vars

(* a move_cells or paste_cells call that went through *)
CellsEdited == ret.op \in {"move_cells", "paste_cells"} /\ ret.status = "ok"

RowsWithinHeaders(t) == \A r \in 1..Len(t.rows) : Len(t.rows[r]) <= Len(t.headers)

(* the cells of the grid the call neither took from nor wrote to *)
Untouched(r, c) ==
    IF ret.op = "move_cells" THEN ~InSource(r, c) /\ ~InDestination(r, c)
    ELSE LET a == ret.arg
             height == IF a.include_headers /\ a.new_data # <<>>
                       THEN Len(a.new_data) - 1 ELSE Len(a.new_data)
         IN ~InRect(r, c, a.start_row, a.start_col, height, MaxWidth(a.new_data))

NothingTruncated ==
    \A r \in 0..(Len(OldTable.rows) - 1) : \A c \in 0..(Len(OldTable.headers) - 1) :
        Untouched(r, c) =>
            /\ r < Len(NewTable.rows) /\ c < Len(NewTable.rows[r + 1])
            /\ NewTable.rows[r + 1][c + 1] = OldTable.rows[r + 1][c + 1]

(* C30: after a table edit, move_cells and paste_cells with a destination
   past the last column included, every row of the table is at most as
   long as the header list, and no cell the edit did not touch is lost. *)
C30_RowsWithinHeaders ==
    CellsEdited => RowsWithinHeaders(NewTable) /\ NothingTruncated

(* the same for paste_cells alone *)
PasteKeepsRowsWithinHeaders ==
    (CellsEdited /\ ret.op = "paste_cells") =>
        RowsWithinHeaders(NewTable) /\ NothingTruncated

(* the cells survive a move_cells call *)
MoveCellsTruncatesNothing ==
    (CellsEdited /\ ret.op = "move_cells") => NothingTruncated

(***************************************************************************)
(* Frame specification: the tables of the column specification with, in    *)
(* every map of the metadata, column keys, possibly a key past the last    *)
(* column, possibly an entry under a key that is no integer, and possibly  *)
(* a metadata key that is no column-indexed map; one insert_column,        *)
(* delete_columns or move_columns call.                                    *)
(***************************************************************************)
(* the entries a map holds under keys int() rejects *)
NamedEntries == {<<"foo", 200>>}

FrameDict(K, named) == IF K = {} /\ named = {} THEN NoDict ELSE Dict(ItemsOf(K), named)

FrameMetadata(K, named, other) ==
    [validation |-> FrameDict(K, named),
     visual |-> [has |-> K # {} \/ named # {},
                 column_widths |-> FrameDict(K, named),
                 validation |-> FrameDict(K, named),
                 columns |-> FrameDict(K, named),
                 filters |-> FrameDict(K, named)],
     columnWidths |-> FrameDict(K, named),
     other |-> other]

FrameInit ==
    /\ md_text = <<RootT, SheetS, Plain>>
    /\ config = ConfigNone
    /\ schema = TRUE
    /\ \E n \in 1..MaxCols :
          \E K \in SUBSET (0..n), named \in SUBSET NamedEntries, other \in BOOLEAN :
             workbook = Workbook(<<Sheet(Name("S", 1),
                 <<Table(SubSeq(HeaderNames, 1, n), <<[j \in 1..n |-> ColTag[j]]>>,
                         FrameMetadata(K, named, other))>>)>>)
    /\ heap = <<>>
    /\ ret = NoRet
    /\ pre = NoPre
    /\ nops = 0

FrameNext == ColInsertColumn \/ ColDeleteColumns \/ ColMoveColumns

SpecFrame == FrameInit /\ [][FrameNext]_vars

(* a call that ran the column shift on a table that has metadata *)
ColumnsShifted ==
    /\ ret.op \in {"insert_column", "delete_columns", "move_columns"}
    /\ ret.status = "ok"
    /\ Truthy(OldTable.metadata)

(* C31: the column shift leaves what is no column index untouched: every
   map keeps its entries under non-integer keys, key and value, a map that
   was present stays present, and every metadata key that is no
   column-indexed map is passed through. *)
C31_ShiftLeavesOthersUntouched ==
    ColumnsShifted =>
        /\ \A m \in 1..Len(ColumnMaps(OldTable.metadata)) :
              /\ ColumnMaps(NewTable.metadata)[m].named = ColumnMaps(OldTable.metadata)[m].named
              /\ ColumnMaps(NewTable.metadata)[m].has = ColumnMaps(OldTable.metadata)[m].has
        /\ NewTable.metadata.visual.has = OldTable.metadata.visual.has
        /\ NewTable.metadata.other = OldTable.metadata.other

C31_Witness ==
    /\ ColumnsShifted
    /\ OldTable.metadata.other
    /\ OldTable.metadata.visual.columns.named # {}
    /\ NewTable.metadata.visual.columns.items # OldTable.metadata.visual.columns.items

(***************************************************************************)
(* services/document.py: move_document_section and move_workbook_section.  *)
(* The workbook-metadata comment is a line of its own: the opening token,  *)
(* json.dumps(workbook.metadata) as one token per key and per tab_order    *)
(* entry, the closing token.                                               *)
(***************************************************************************)
DocB == <<"#", " ", "B">>

DocC == <<"#", " ", "C">>

Digits == <<"0", "1", "2", "3", "4", "5", "6", "7", "8", "9">>

(* json.dumps of one tab_order entry *)
EntryJson(e) == (IF e.type = "sheet" THEN "s" ELSE "d") \o Digits[e.index + 1]

(* json.dumps(workbook.metadata, ensure_ascii=False) *)
MetadataJson(wb, h) ==
    (IF wb.other_meta THEN <<"other">> ELSE <<>>)
        \o (IF wb.has_tab_order
            THEN <<"tab_order">> \o [j \in 1..Len(wb.tab_order) |->
                                        EntryJson(h[wb.tab_order[j]])]
            ELSE <<>>)

(* f"<!-- md-spreadsheet-workbook-metadata: {new_metadata_json} -->" *)
MetadataComment(wb, h) == <<"<!--">> \o MetadataJson(wb, h) \o <<"-->">>

(* a line metadata_pattern matches *)
IsMetadataComment(line) == line # <<>> /\ Head(line) = "<!--"

(* re.search(metadata_pattern, new_md) *)
HasMetadataComment(lines) == \E j \in 1..Len(lines) : IsMetadataComment(lines[j])

(* re.sub(metadata_pattern, new_metadata_comment, new_md): every match *)
SubMetadataComment(lines, comment) ==
    [j \in 1..Len(lines) |-> IF IsMetadataComment(lines[j]) THEN comment ELSE lines[j]]

(* the else branch: the comment goes in after the workbook range *)
InsertMetadataComment(lines, cfg, comment) ==
    LET wb_end == get_workbook_range(lines, cfg.rootMarker, cfg.sheetHeaderLevel).end
        insert_idx == Min(wb_end, Len(lines))
    IN IF wb_end <= Len(lines)
       THEN SubSeq(lines, 1, insert_idx) \o <<EmptyLine, comment>>
               \o SubSeq(lines, insert_idx + 1, Len(lines))
       ELSE lines

(* the first section of type "workbook", 0 when there is none *)
FirstWorkbookSection(secs) ==
    LET W == {k \in 1..Len(secs) : secs[k].type = "workbook"}
    IN IF W = {} THEN 0 ELSE CHOOSE k \in W : \A q \in W : k <= q

(* the loop that rebuilds the lines with the source lines at the target *)
Splice(lines, source_start, source_end, target_line) ==
    LET source_lines == SubSeq(lines, source_start + 1, source_end + 1)
        rest == SubSeq(lines, 1, source_start) \o SubSeq(lines, source_end + 2, Len(lines))
        adjusted_target == IF target_line <= source_start THEN target_line
                           ELSE target_line - (source_end - source_start + 1)
        at == Max(0, Min(adjusted_target, Len(rest)))
    IN SubSeq(rest, 1, at) \o source_lines \o SubSeq(rest, at + 1, Len(rest))

(* move_document_section: target_line *)
DocumentTargetLine(lines, secs, docs, to_doc_index, to_after_workbook, to_before_workbook) ==
    LET w == FirstWorkbookSection(secs)
    IN IF to_after_workbook THEN (IF w = 0 THEN 0 ELSE secs[w].end + 1)
       ELSE IF to_before_workbook THEN (IF w = 0 THEN 0 ELSE secs[w].start)
       ELSE IF to_doc_index >= Len(docs) THEN Len(lines)
       ELSE docs[to_doc_index + 1].start

(* move_document_section: docs_before_target *)
DocsBeforeTarget(h, addrs, from_doc_index, target_tab_order_index) ==
    Cardinality({j \in 1..Min(target_tab_order_index, Len(addrs)) :
                    /\ h[addrs[j]].type = "document"
                    /\ h[addrs[j]].index # from_doc_index})

(* the text after the workbook comparison: the comment is rewritten only
   when updated_workbook != workbook *)
WithMetadataComment(lines, cfg, old_wb, new_wb, h) ==
    IF Deep(new_wb, h) # Deep(old_wb, h) /\ MetadataTruthy(new_wb)
    THEN IF HasMetadataComment(lines)
         THEN SubMetadataComment(lines, MetadataComment(new_wb, h))
         ELSE InsertMetadataComment(lines, cfg, MetadataComment(new_wb, h))
    ELSE lines

MoveArg(from_doc_index, to_doc_index, after, before, target_tab_order_index) ==
    [from_doc_index |-> from_doc_index, to_doc_index |-> to_doc_index,
     after |-> after, before |-> before,
     target_tab_order_index |-> target_tab_order_index]

(* the early return taken whatever the tab-order target *)
SamePosition_any_target(from_doc_index, to_doc_index, target_tab_order_index) ==
    to_doc_index # None /\ from_doc_index = to_doc_index

(* move_document_section: the early return that reports no change *)
SamePosition(from_doc_index, to_doc_index, target_tab_order_index) ==
    /\ to_doc_index # None
    /\ from_doc_index = to_doc_index
    /\ target_tab_order_index = None

(* services/document.py: move_document_section *)
MoveDocumentSection(from_doc_index, to_doc_index, to_after_workbook, to_before_workbook, target_tab_order_index) ==
    LET arg == MoveArg(from_doc_index, to_doc_index, to_after_workbook,
                       to_before_workbook, target_tab_order_index)
        secs == ScanSections(md_text, config.rootMarker)
        docs == DocSections(md_text, config.rootMarker)
    IN
    /\ pre' = Snapshot
    /\ nops' = nops + 1
    /\ UNCHANGED <<config, schema>>
    /\ IF ~JsonLoadsOk(config)
       THEN /\ ret' = [Ret("move_document_section", "raise") EXCEPT !.arg = arg]
            /\ UNCHANGED <<md_text, workbook, heap>>
       ELSE IF from_doc_index < 0 \/ from_doc_index >= Len(docs)
       THEN /\ ret' = [Ret("move_document_section", "error") EXCEPT !.arg = arg]
            /\ UNCHANGED <<md_text, workbook, heap>>
       ELSE IF SamePosition(from_doc_index, to_doc_index, target_tab_order_index)
       THEN /\ ret' = [Ret("move_document_section", "ok") EXCEPT
                         !.arg = arg, !.file_changed = FALSE]
            /\ UNCHANGED <<md_text, workbook, heap>>
       ELSE IF ~to_after_workbook /\ ~to_before_workbook /\ to_doc_index = None
       THEN /\ ret' = [Ret("move_document_section", "error") EXCEPT !.arg = arg]
            /\ UNCHANGED <<md_text, workbook, heap>>
       ELSE LET source == docs[from_doc_index + 1]
                target_line == DocumentTargetLine(md_text, secs, docs, to_doc_index,
                                                  to_after_workbook, to_before_workbook)
                new_lines == Splice(md_text, source.start, source.end, target_line)
                effective_to_index ==
                    IF to_doc_index # None THEN to_doc_index
                    ELSE DocsBeforeTarget(heap, workbook.tab_order, from_doc_index,
                                          target_tab_order_index)
                r == IF workbook.present /\ target_tab_order_index # None
                     THEN reorder_tab_metadata(workbook, heap, "document",
                                               from_doc_index, effective_to_index,
                                               target_tab_order_index)
                     ELSE [wb |-> workbook, heap |-> heap]
                new_md == WithMetadataComment(new_lines, config, workbook, r.wb, r.heap)
            IN /\ md_text' = new_md
               /\ workbook' = IF Deep(r.wb, r.heap) # Deep(workbook, r.heap)
                              THEN r.wb ELSE workbook
               /\ heap' = r.heap
               /\ ret' = [Ret("move_document_section", "ok") EXCEPT
                            !.arg = arg, !.file_changed = TRUE, !.content = new_md,
                            !.startLine = 0, !.endLine = Len(md_text) - 1]

(* move_workbook_section: target_line *)
WorkbookTargetLine(lines, docs, to_doc_index, to_after_doc) ==
    IF to_doc_index >= Len(docs) THEN Len(lines)
    ELSE IF to_after_doc THEN docs[to_doc_index + 1].end + 1
    ELSE docs[to_doc_index + 1].start

IsSheetAddress(a) == heap[a].type = "sheet"

IsOtherAddress(a) == heap[a].type # "sheet"

(* move_workbook_section: the sheet entries taken out and put back as one
   block at the target position of the remaining list *)
SheetsAsBlock(addrs, target_tab_order_index) ==
    LET sheet_items == SelectSeq(addrs, IsSheetAddress)
        new_tab_order == SelectSeq(addrs, IsOtherAddress)
        safe_target == Min(target_tab_order_index, Len(new_tab_order))
    IN SubSeq(new_tab_order, 1, safe_target) \o sheet_items
          \o SubSeq(new_tab_order, safe_target + 1, Len(new_tab_order))

(* services/document.py: move_workbook_section *)
MoveWorkbookSection(to_doc_index, to_after_doc, to_before_doc, target_tab_order_index) ==
    LET arg == MoveArg(None, to_doc_index, to_after_doc, to_before_doc,
                       target_tab_order_index)
        secs == ScanSections(md_text, config.rootMarker)
        docs == DocSections(md_text, config.rootMarker)
        w == FirstWorkbookSection(secs)
    IN
    /\ pre' = Snapshot
    /\ nops' = nops + 1
    /\ UNCHANGED <<config, schema, heap>>
    /\ IF ~JsonLoadsOk(config)
       THEN /\ ret' = [Ret("move_workbook_section", "raise") EXCEPT !.arg = arg]
            /\ UNCHANGED <<md_text, workbook>>
       ELSE IF w = 0 \/ to_doc_index = None \/ to_doc_index < 0
                  \/ to_doc_index > Len(docs)
       THEN /\ ret' = [Ret("move_workbook_section", "error") EXCEPT !.arg = arg]
            /\ UNCHANGED <<md_text, workbook>>
       ELSE LET target_line == WorkbookTargetLine(md_text, docs, to_doc_index,
                                                  to_after_doc)
                new_lines == Splice(md_text, secs[w].start, secs[w].end, target_line)
                rewrite == target_tab_order_index # None /\ workbook.present
                              /\ MetadataTruthy(workbook)
                new_wb == IF rewrite
                          THEN [workbook EXCEPT
                                  !.has_tab_order = TRUE,
                                  !.tab_order = SheetsAsBlock(@, target_tab_order_index)]
                          ELSE workbook
                new_md == IF rewrite /\ HasMetadataComment(new_lines)
                          THEN SubMetadataComment(new_lines,
                                                  MetadataComment(new_wb, heap))
                          ELSE new_lines
            IN /\ md_text' = new_md
               /\ workbook' = new_wb
               /\ ret' = [Ret("move_workbook_section", "ok") EXCEPT
                            !.arg = arg, !.file_changed = TRUE, !.content = new_md,
                            !.startLine = 0, !.endLine = Len(md_text) - 1]

(***************************************************************************)
(* Section specification: a text of up to MaxDocs document sections and    *)
(* one workbook section in any place, each document with or without a body *)
(* line; the workbook has one sheet and either no metadata or a tab_order  *)
(* that lists every sheet and document once, in any order, which the text  *)
(* carries or not as a metadata comment at the end of the workbook         *)
(* section.  One section move.                                             *)
(***************************************************************************)
MaxDocs == 2

DocHeadings == <<DocA, DocB, DocC>>

DocBlock(k, body) == IF body THEN <<DocHeadings[k], Plain>> ELSE <<DocHeadings[k]>>

RECURSIVE SectionText(_, _, _, _, _)
SectionText(k, n, at, body, workbook_block) ==
    (IF at = k - 1 THEN workbook_block ELSE <<>>)
       \o (IF k > n THEN <<>>
           ELSE DocBlock(k, body) \o SectionText(k + 1, n, at, body, workbook_block))

(* the entries of n documents and one sheet *)
SectionEntries(n) ==
    [j \in 1..(n + 1) |-> IF j <= n THEN Entry("document", j - 1) ELSE Entry("sheet", 0)]

Orders(n) == {f \in [1..n -> 1..n] : \A i, j \in 1..n : i # j => f[i] # f[j]}

SectionInit ==
    /\ config = ConfigNone
    /\ schema = TRUE
    /\ ret = NoRet
    /\ pre = NoPre
    /\ nops = 0
    /\ \E n \in 1..MaxDocs, body \in BOOLEAN, with_comment \in BOOLEAN :
       \E at \in 0..n, order \in Orders(n + 1) \cup {<<>>} :
          LET wb == [Workbook(<<Sheet(Name("S", 1), <<SampleTable>>)>>) EXCEPT
                       !.has_tab_order = order # <<>>, !.tab_order = order]
              h == SectionEntries(n)
              block == <<RootT, SheetS>>
                          \o (IF with_comment /\ order # <<>>
                              THEN <<MetadataComment(wb, h)>> ELSE <<>>)
          IN /\ heap = h
             /\ workbook = wb
             /\ md_text = SectionText(1, n, at, body, block)

SectionMoveDocument ==
    /\ ret.op = "none"
    /\ \E from_doc_index \in 0..MaxDocs, to_doc_index \in {None} \cup (0..MaxDocs),
          where \in {"doc", "after", "before"},
          target_tab_order_index \in {None} \cup (0..(MaxDocs + 1)) :
          /\ where = "doc" \/ to_doc_index = None
          /\ MoveDocumentSection(from_doc_index, to_doc_index, where = "after",
                                 where = "before", target_tab_order_index)

SectionMoveWorkbook ==
    /\ ret.op = "none"
    /\ \E to_doc_index \in {None} \cup (0..(MaxDocs + 1)), to_after_doc \in BOOLEAN,
          target_tab_order_index \in {None} \cup (0..(MaxDocs + 1)) :
          MoveWorkbookSection(to_doc_index, to_after_doc, FALSE, target_tab_order_index)

SectionNext == SectionMoveDocument \/ SectionMoveWorkbook

SpecSection == SectionInit /\ [][SectionNext]_vars

(* a section move that went through *)
SectionMoved ==
    /\ ret.op \in {"move_document_section", "move_workbook_section"}
    /\ ret.status = "ok"

(* C32 as stated: every successful move_document_section and
   move_workbook_section call reports that the content changed. *)
C32_MoveReportsFileChanged == SectionMoved => ret.file_changed

(* a move_document_section call that names the document's own index and no
   tab-order target *)
SamePlace ==
    /\ ret.op = "move_document_section"
    /\ ret.arg.to_doc_index # None
    /\ ret.arg.to_doc_index = ret.arg.from_doc_index
    /\ ret.arg.target_tab_order_index = None

(* C32 amended: every successful section move reports that the content
   changed, except a move_document_section call that names the document's
   own index and no tab-order target, which reports no change and changes
   neither the text nor the workbook. *)
C32_MoveReportsFileChangedUnlessSamePlace ==
    SectionMoved =>
        IF SamePlace
        THEN ~ret.file_changed /\ md_text = pre.md_text
                /\ Deep(workbook, heap) = pre.view
        ELSE ret.file_changed

C32_Witness ==
    /\ SectionMoved
    /\ ret.op = "move_document_section"
    /\ ~SamePlace
    /\ ret.file_changed
    /\ md_text # pre.md_text

(* the move changed the workbook metadata a holder of the session reads *)
MetadataChanged ==
    \/ Deep(workbook, heap).tab_order # pre.view.tab_order
    \/ workbook.has_tab_order # pre.view.has_tab_order

CommentLines(lines) == {j \in 1..Len(lines) : IsMetadataComment(lines[j])}

(* the comment of the current metadata stands at line j, after a blank
   line, right after the workbook range of the text without the two *)
InsertedAfterWorkbookRange(j) ==
    /\ j >= 2
    /\ md_text[j] = MetadataComment(workbook, heap)
    /\ md_text[j - 1] = EmptyLine
    /\ LET base == SubSeq(md_text, 1, j - 2) \o SubSeq(md_text, j + 1, Len(md_text))
           wb_end == get_workbook_range(base, config.rootMarker,
                                        config.sheetHeaderLevel).end
       IN j - 2 = Min(wb_end, Len(base))

(* C33: when a section move changes the workbook metadata, the resulting
   text carries the metadata comment of the new metadata: a comment the
   text had is replaced where it stands, and a text without one gets the
   comment right after the workbook range. *)
C33_MoveWritesMetadataComment ==
    (SectionMoved /\ MetadataChanged) =>
        IF HasMetadataComment(pre.md_text)
        THEN /\ Len(md_text) = Len(pre.md_text)
             /\ Cardinality(CommentLines(md_text)) = Cardinality(CommentLines(pre.md_text))
             /\ \A j \in CommentLines(md_text) :
                   md_text[j] = MetadataComment(workbook, heap)
        ELSE /\ Len(md_text) = Len(pre.md_text) + 2
             /\ \E j \in 1..Len(md_text) : InsertedAfterWorkbookRange(j)

(* a move_document_section call with a tab-order target that went through
   on a workbook that has a tab_order *)
DocumentMovedInTabOrder ==
    /\ ret.op = "move_document_section"
    /\ ret.status = "ok"
    /\ ret.arg.target_tab_order_index # None
    /\ pre.workbook.present /\ pre.workbook.has_tab_order

(* C39: after such a move the metadata comment of the session text
   encodes the tab_order of the session workbook: every comment of the
   text is the comment of the current metadata, and the text has one when
   the move changed the tab_order. *)
C39_CommentEncodesTabOrder ==
    DocumentMovedInTabOrder =>
        /\ \A j \in CommentLines(md_text) : md_text[j] = MetadataComment(workbook, heap)
        /\ MetadataChanged => HasMetadataComment(md_text)

(***************************************************************************)
(* Handle specification (context.py: EditorContext).  md_text, config,     *)
(* schema and workbook are the fields of the EditorState object that the   *)
(* class attribute EditorContext._state holds; heap is the list of the     *)
(* EditorContext objects made so far.  An object has no attribute of its   *)
(* own until reset() assigns self._state, after which its properties go    *)
(* to that EditorState; is_instance marks the object that the class        *)
(* attribute EditorContext._instance holds.                                *)
(***************************************************************************)
MaxHandles == 2

(* EditorState() *)
EditorState ==
    [md_text |-> <<EmptyLine>>, config |-> ConfigNone, schema |-> FALSE,
     workbook |-> NoneWorkbook]

(* the EditorState held by the class attribute *)
ClassState ==
    [md_text |-> md_text, config |-> config, schema |-> schema, workbook |-> workbook]

(* EditorContext(): a new object without attributes *)
NewHandle(is_instance) == [own |-> FALSE, state |-> EditorState, is_instance |-> is_instance]

(* self._state as attribute lookup resolves it *)
StateOf(handle) == IF handle.own THEN handle.state ELSE ClassState

HandleTexts == {<<Plain>>, <<RootT>>}

HandleInit ==
    /\ md_text = EditorState.md_text
    /\ config = EditorState.config
    /\ schema = EditorState.schema
    /\ workbook = EditorState.workbook
    /\ heap = <<>>
    /\ ret = NoRet
    /\ pre = NoPre
    /\ nops = 0

(* EditorContext() *)
HandleConstruct ==
    /\ Len(heap) < MaxHandles
    /\ heap' = Append(heap, NewHandle(FALSE))
    /\ ret' = Ret("EditorContext", "ok")
    /\ UNCHANGED <<md_text, config, schema, workbook, pre, nops>>

(* EditorContext.get_instance() *)
HandleGetInstance ==
    /\ \A a \in 1..Len(heap) : ~heap[a].is_instance
    /\ Len(heap) < MaxHandles
    /\ heap' = Append(heap, NewHandle(TRUE))
    /\ ret' = Ret("get_instance", "ok")
    /\ UNCHANGED <<md_text, config, schema, workbook, pre, nops>>

(* handle.update_state(md_text=text) *)
HandleUpdateState ==
    \E a \in 1..Len(heap), text \in HandleTexts :
       /\ IF heap[a].own
          THEN /\ heap' = [heap EXCEPT ![a].state.md_text = text]
               /\ UNCHANGED md_text
          ELSE /\ md_text' = text
               /\ UNCHANGED heap
       /\ ret' = [Ret("update_state", "ok") EXCEPT !.arg = a]
       /\ UNCHANGED <<config, schema, workbook, pre, nops>>

(* handle.reset(): self._state = EditorState() *)
reset(handle) == [handle EXCEPT !.own = TRUE, !.state = EditorState]

HandleReset ==
    \E a \in 1..Len(heap) :
       /\ heap' = [heap EXCEPT ![a] = reset(heap[a])]
       /\ ret' = [Ret("reset", "ok") EXCEPT !.arg = a]
       /\ UNCHANGED <<md_text, config, schema, workbook, pre, nops>>

HandleNext == HandleConstruct \/ HandleGetInstance \/ HandleUpdateState \/ HandleReset

SpecHandles == HandleInit /\ [][HandleNext]_vars

(* C34: the session holds one current (text, model, config, schema)
   tuple: at every point of a call sequence, reset() through any handle
   included, every EditorContext object reads the same state. *)
C34_OneSessionState ==
    \A a, b \in 1..Len(heap) : StateOf(heap[a]) = StateOf(heap[b])

(* the indices the tab_order lists for a kind, one per entry *)
ListedIndices(order, kind) ==
    [j \in {q \in 1..Len(order) : order[q].type = kind} |-> order[j].index]

(* the entries of a kind list each of 0..n-1 exactly once *)
ListsEachOnce(order, kind, n) ==
    LET listed == ListedIndices(order, kind)
    IN /\ Cardinality(DOMAIN listed) = n
       /\ {listed[j] : j \in DOMAIN listed} = 0..(n - 1)

(* a present tab_order lists every sheet of the workbook and every
   document section of the text exactly once *)
TabOrderWellFormed ==
    (workbook.present /\ workbook.has_tab_order) =>
        /\ ListsEachOnce(TabOrderNow, "sheet", Len(workbook.sheets))
        /\ ListsEachOnce(TabOrderNow, "document",
                         Len(DocSections(md_text, config.rootMarker)))
        /\ \A j \in 1..Len(TabOrderNow) : TabOrderNow[j].type \in {"sheet", "document"}

(* C35: from a workbook whose tab_order is absent or well formed, every
   sequence of sheet, document and section operations leaves a present
   tab_order well formed. *)
C35_TabOrderStaysWellFormed == TabOrderWellFormed

(* the ordinal, among the document sections of a text, of the section
   whose heading line is the given one *)
OrdinalOf(lines, heading) ==
    LET docs == DocSections(lines, config.rootMarker)
        at == {k \in 1..Len(docs) : Line(lines, docs[k].start) = heading}
    IN IF at = {} THEN None ELSE (CHOOSE k \in at : TRUE) - 1

(* a successful move_document_section(from, to, target) on a workbook with
   a tab_order *)
DocumentMovedTo ==
    /\ DocumentMovedInTabOrder
    /\ ret.arg.to_doc_index # None

(* C36: after a successful move_document_section(from, to, target) every
   document entry of the tab_order carries the ordinal that the document it
   denoted before the move now has among the document sections of the new
   text. *)
C36_RemapAgreesWithSplice ==
    DocumentMovedTo =>
        \A j \in 1..Len(pre.workbook.tab_order) :
           pre.view.tab_order[j].type = "document" =>
               heap[pre.workbook.tab_order[j]].index
                  = OrdinalOf(md_text, Line(pre.md_text,
                       DocSections(pre.md_text, config.rootMarker)
                          [pre.view.tab_order[j].index + 1].start))

(* the ordinal, among the document sections of a text, of the section that
   starts at the given line *)
OrdinalAt(lines, start) ==
    LET docs == DocSections(lines, config.rootMarker)
        at == {k \in 1..Len(docs) : docs[k].start = start}
    IN IF at = {} THEN None ELSE (CHOOSE k \in at : TRUE) - 1

(* a successful add_document on a workbook whose tab_order listed every
   document of the text once *)
DocumentAdded ==
    /\ ret.op = "add_document"
    /\ ret.status = "ok"
    /\ pre.workbook.present /\ pre.workbook.has_tab_order
    /\ ListsEachOnce(pre.view.tab_order, "document",
                     Len(DocSections(pre.md_text, config.rootMarker)))

(* the line of the new heading: a blank line precedes it unless it was
   inserted at line 0 *)
NewHeadingLine == IF ret.startLine > 0 THEN ret.startLine + 1 ELSE 0

(* where a section that started at line start of the old text starts now *)
StartAfterAdd(start) ==
    IF start < ret.startLine THEN start
    ELSE start + (Len(md_text) - Len(pre.md_text))

(* a tab_order entry of the old workbook as it has to read after the add *)
AfterAdd(e) ==
    IF e.type # "document" THEN e
    ELSE Entry("document",
               OrdinalAt(md_text,
                         StartAfterAdd(DocSections(pre.md_text, config.rootMarker)
                                          [e.index + 1].start)))

(* C37: after a successful add_document the entry of the new document
   carries the ordinal that the new section has among the document sections
   of the resulting text, and every other document entry carries the new
   ordinal of its document. *)
C37_AddedDocumentOrdinals ==
    DocumentAdded =>
        \E pos \in 1..Len(TabOrderNow) :
           /\ TabOrderNow[pos] = Entry("document", OrdinalAt(md_text, NewHeadingLine))
           /\ LET rest == RemoveAt(TabOrderNow, pos - 1)
              IN rest = [j \in 1..Len(pre.view.tab_order) |->
                           AfterAdd(pre.view.tab_order[j])]

(***************************************************************************)
(* Scanner-agreement specification: a text of at most MaxAgreeLines lines, *)
(* no workbook object, and one call of an operation that takes or yields a *)
(* document index.                                                         *)
(***************************************************************************)
MaxAgreeLines == 3

(* a level-1 heading with an empty title *)
DocUntitled == <<"#", " ">>

AgreeLines == {RootT, DocA, IndentDocB, DocUntitled, Fence, Plain}

AgreeTexts == UNION {[1..n -> AgreeLines] : n \in 1..MaxAgreeLines}

(* services/document.py: rename_document, its scanner: a heading is a
   stripped line other than the root marker whose leading run of # has
   length docHeaderLevel; a fence line toggles in_code_block and is
   skipped *)
RenameHeadingLines(lines, root_marker) ==
    SortedSeq({i \in 0..(Len(lines) - 1) :
                  /\ ~startswith(strip(Line(lines, i)), Fence)
                  /\ ~InCodeBlockAt(lines, i)
                  /\ startswith(strip(Line(lines, i)), <<"#">>)
                  /\ strip(Line(lines, i)) # root_marker
                  /\ get_level(strip(Line(lines, i))) = DefaultDocHeaderLevel})

(* services/document.py: rename_document *)
RenameDocument(doc_index, new_title) ==
    /\ pre' = Snapshot
    /\ nops' = nops + 1
    /\ UNCHANGED <<config, schema, workbook, heap>>
    /\ LET H == RenameHeadingLines(md_text, config.rootMarker)
       IN IF md_text = <<EmptyLine>> \/ ~JsonLoadsOk(config)
             \/ doc_index < 0 \/ doc_index >= Len(H)
          THEN /\ ret' = [Ret("rename_document", "error") EXCEPT !.arg = doc_index]
               /\ UNCHANGED md_text
          ELSE LET i == H[doc_index + 1]
                   new_header == <<"#", " ">> \o new_title
               IN /\ md_text' = [md_text EXCEPT ![i + 1] = new_header]
                  /\ ret' = [Ret("rename_document", "ok") EXCEPT
                               !.content = <<new_header>>,
                               !.startLine = i, !.endLine = i,
                               !.endCol = Len(Line(md_text, i)),
                               !.arg = doc_index]

AgreeInit ==
    /\ md_text \in AgreeTexts
    /\ config = ConfigNone
    /\ schema = TRUE
    /\ workbook = NoneWorkbook
    /\ heap = <<>>
    /\ ret = NoRet
    /\ pre = NoPre
    /\ nops = 0

AgreeGetDocumentSectionRange ==
    /\ ret.op = "none"
    /\ \E n \in 0..MaxSectionIndex : GetDocumentSectionRange(n)

AgreeRenameDocument ==
    /\ ret.op = "none"
    /\ \E doc_index \in 0..MaxSectionIndex : RenameDocument(doc_index, <<"N">>)

AgreeDeleteDocument ==
    /\ ret.op = "none"
    /\ \E doc_index \in 0..MaxSectionIndex : DeleteDocument(doc_index)

AgreeNext ==
    \/ AgreeGetDocumentSectionRange
    \/ AgreeRenameDocument
    \/ AgreeDeleteDocument
    \/ CallExtractStructure

SpecAgree == AgreeInit /\ [][AgreeNext]_vars

(* the text the last call scanned *)
ScannedText == IF ret.op \in {"rename_document", "delete_document"}
               THEN pre.md_text ELSE md_text

(* the heading line of document n for each scanner, None when it finds no
   such document *)
RangeHeading(lines, n) ==
    LET docs == DocSections(lines, config.rootMarker)
    IN IF n < Len(docs) THEN docs[n + 1].start ELSE None

RenameHeading(lines, n) ==
    LET H == RenameHeadingLines(lines, config.rootMarker)
    IN IF n < Len(H) THEN H[n + 1] ELSE None

DeleteHeading(lines, n) ==
    LET docs == SelectSeq(DeleteSections(lines, config.rootMarker), IsDocumentSection)
    IN IF n < Len(docs) THEN docs[n + 1].start ELSE None

(* the title extract_structure gives document n, NoTitle when it lists no
   such document *)
NoTitle == <<"none">>

StructureTitle(lines, n) ==
    LET docs == SelectSeq(extract_structure(lines, config.rootMarker), IsDocumentEntry)
    IN IF n < Len(docs) THEN docs[n + 1].title ELSE NoTitle

HeadingTitle(lines, i) == IF i = None THEN NoTitle ELSE TitleOf(Line(lines, i))

ScannersAgreeOn(lines, n) ==
    /\ RenameHeading(lines, n) = RangeHeading(lines, n)
    /\ DeleteHeading(lines, n) = RangeHeading(lines, n)
    /\ StructureTitle(lines, n) = HeadingTitle(lines, RangeHeading(lines, n))

(* C38: document index N denotes the same heading line for every scanner:
   after a call of get_document_section_range, rename_document or
   delete_document with index N, and after extract_structure for every N,
   the scanners of the four operations find the same heading line for N in
   the scanned text (extract_structure: a document with that line's
   title). *)
C38_ScannersAgree ==
    /\ (ret.op \in {"get_document_section_range", "rename_document", "delete_document"}
          /\ ret.status \in {"ok", "error"})
          => ScannersAgreeOn(ScannedText, ret.arg)
    /\ ret.op = "extract_structure"
          => \A n \in 0..MaxSectionIndex : ScannersAgreeOn(md_text, n)

(***************************************************************************)
(* Repeated-index specification: the tables of the list specification and  *)
(* one delete_rows or delete_columns call whose index list names an index  *)
(* more than once.                                                         *)
(***************************************************************************)
MaxRepeat == 3

(* the lists of 2..MaxRepeat in-range indices that hold an index twice *)
RepeatLists(n) ==
    {l \in UNION {[1..k -> 0..(n - 1)] : k \in 2..MaxRepeat} :
        Cardinality(Range(l)) < Len(l)}

RepeatDeleteRows ==
    /\ nops = 0
    /\ \E row_indices \in RepeatLists(ListLength) : DeleteRows(0, 0, row_indices)

RepeatDeleteColumns ==
    /\ nops = 0
    /\ \E col_indices \in RepeatLists(ListLength) : DeleteColumns(0, 0, col_indices)

RepeatNext == RepeatDeleteRows \/ RepeatDeleteColumns

SpecRepeat == MoveInit /\ [][RepeatNext]_vars

(* the table a call with each named index listed once, ascending, leaves *)
DeletedAsSet ==
    IF ret.op = "delete_rows"
    THEN delete_rows_table(OldTable, AsList(ret.cols))
    ELSE delete_columns_table(OldTable, AsList(ret.cols))

(* C40: a delete_rows or delete_columns call whose list repeats an index
   removes exactly the rows or columns whose original indices occur in the
   list, and leaves the table, headers, cells and remapped metadata, that
   the call with every index listed once leaves. *)
C40_RepeatedIndicesAreASet ==
    (ret.op \in {"delete_rows", "delete_columns"} /\ ret.status = "ok") =>
        /\ ret.op = "delete_rows" => RowsAreTheKept
        /\ ret.op = "delete_columns" => ColumnsAreTheKept
        /\ NewTable = DeletedAsSet
====
